---- MODULE Spec2Model ----
(***************************************************************************)
(* FlipFlow lifecycle engine: the listing catalogue, the SmartQueue, the   *)
(* zombie pipeline (ZombieKiller, Resurrector, AutoRelister, Purgatory)    *)
(* and the marketplace gateway they drive.  Every policy call runs in its  *)
(* own session that is committed when the call returns normally, so one    *)
(* action is one committed call.  Money is in integer cents.               *)
(***************************************************************************)
EXTENDS Integers, Sequences, FiniteSets, TLC

\* ------------------------------------------------------------------ bounds
\* Listing ids, and the rows the catalogue holds when the run starts.
ListingIds == {1, 2}
CatalogueIds == {1}
\* The rows the catalogue holds when the repricer runs.
RepriceIds == {1, 2}
\* The rows enqueued when the queue is released, the priorities they were
\* enqueued with and the batch sizes the queue is configured with.
QueueIds == {1, 2, 3}
QueuePriorities == {0, 1}
QueueBatchSizes == {1, 2}
\* Callers that run promote_new_listing at the same time.
Callers == {1, 2}
\* Offers the gateway creates in one run.
MaxIds == 3
\* QueueEntry rows.
MaxEntries == 1
\* Priorities a caller passes to enqueue (the default).
Priorities == {0}
\* Values the traffic report / the external collector supply.
ViewValues == {0, 50}
\* Hours the clock runs, and the intervals between calls.
MaxClock == 26
TickHours == {12, 13}
\* Buyers, the length of a watcher list, buyer offers handled in one run.
Buyers == {"b1", "b2"}
MaxWatchers == 2
MaxInbound == 1
\* Campaign rows, and the days the clock runs in week-long intervals.
MaxCampaigns == 2
MaxDays == 28
TickDayValues == {7}
\* Ladder strings: their length in items, and the days and percents they use.
MaxLadderLen == 2
LadderDays == {7, 14}
LadderPercents == {10, 40}
\* Purchase prices: one leaves room under the list price, one does not.
PurchasePrices == {2000, 4500}
InboundAmounts == {4500, 4000, 1000}
\* Current prices of a listing that takes buyer offers, and offers at and next
\* to 90% and 75% of these prices.
InboundPrices == {5000, 4200, 1280}
\* Surge windows: the configured day names (one capitalised, one unknown),
\* the start and end hours, the time zones as UTC offsets in hours, and the
\* offsets and hours of the datetimes asked about.
SurgeDayNames == {"monday", "tuesday", "wednesday", "thursday", "friday",
                  "saturday", "sunday", "Sunday", "funday"}
SurgeHours == {<<20, 22>>, <<22, 2>>}
SurgeZones == {-5, 3}
DatetimeOffsets == {-5, 0, 3}
DatetimeHours == {0, 1, 2, 3, 16, 17, 18, 19, 20, 21, 22, 23}
\* Ages, view counts and cycle counts around the zombie thresholds.
ZombieDays == {59, 60, 61}
ZombieViews == {9, 10, 11}
ZombieCycles == {2, 3}
ThresholdAmounts == {4600, 3780, 3750, 3150, 1152, 960, 959}

\* ------------------------------------------------------- program constants
MaxZombieCycles == 3
ZombieDaysThreshold == 60
ZombieViewsThreshold == 10
RelistCadenceDays == 30
RelistViewsThreshold == 50
QueueBatchSize == 10
\* Fee structure, in cents and in basis points of the sale price.
BaseFeeBp == 1300
PaymentProcessingBp == 290
PerOrderFeeCents == 30
MinProfitFloorCents == 500
PurgatorySalePercent == 30
CooldownHours == 24
AutoAcceptPercent == 90
CounterThresholdPercent == 75
CounterPercent == 95
DefaultDiscountPercent == 10
\* Ad rates are in hundredths of a percent: 1.5 % is 150.
KickstarterAdRate == 150
KickstarterDurationDays == 14
ResurrectionDelaySeconds == 120
PhotoShuffleDaysNoViews == 14

None == 0
\* A timestamp column that was never set.
Never == -1

DRAFT == "draft"
QUEUED == "queued"
ACTIVE == "active"
ZOMBIE == "zombie"
PURGATORY == "purgatory"
SOLD == "sold"
ENDED == "ended"

PENDING == "pending"
RELEASED == "released"
FAILED == "failed"

SENT == "sent"
ACCEPTED == "accepted"

ACCEPT == "accept"
COUNTER == "counter"
REJECT == "reject"

FLAGGED == "flagged"
RESURRECTED == "resurrected"
PURGATORED == "purgatored"
PREVENTIVE_RELIST == "preventive_relist"

VARIABLES
    listings,       \* listing id -> Listing row
    entries,        \* QueueEntry rows in creation order
    gwOffers,       \* gateway: offer id -> "NONE" | "CREATED" | "PUBLISHED" | "WITHDRAWN"
    gwInventory,    \* gateway: SKU -> price of the inventory item (None: no item)
    nextOfferId,    \* gateway: next fresh offer id
    clock,          \* wall clock, in hours
    offerRecords,   \* OfferRecord rows
    sentOffers,     \* gateway: send_offer_to_buyer calls in order, <<listing, buyer, hour>>
    campaigns,      \* Campaign rows in creation order
    gwCampaigns,    \* gateway: campaign id -> "RUNNING" | "ENDED"
    steps,          \* Repricer.steps, the parsed markdown ladder
    sessions,       \* calls in progress, each in its own session
    batch_size,     \* SmartQueue.batch_size
    surge,          \* SmartQueue.surge_day, surge_start, surge_end and tz
    monotonic,      \* time.monotonic(), in seconds
    limiter,        \* EbayRateLimiter._calls and _consecutive_429s
    tokens,         \* EbayTokenManager._user_token and _app_token
    requests,       \* task -> the frame of its EbayHttpClient.request call
    last            \* the call that produced this state, and its result

vars == <<listings, entries, gwOffers, gwInventory, nextOfferId,
          clock, offerRecords, sentOffers, campaigns, gwCampaigns, steps,
          sessions, batch_size, surge,
          monotonic, limiter, tokens, requests, last>>

\* What the lifecycle policies leave alone.
growthVars == <<clock, offerRecords, sentOffers, campaigns, gwCampaigns, steps, sessions, batch_size, surge,
               monotonic, limiter, tokens, requests>>

\* ----------------------------------------------------------------- helpers
\* round(n / d) to the nearest integer, ties to even (n >= 0, d > 0).
RoundDiv(n, d) ==
    LET q == n \div d
        r == n % d
    IN  IF 2 * r < d THEN q
        ELSE IF 2 * r > d THEN q + 1
        ELSE IF q % 2 = 0 THEN q ELSE q + 1

\* ------------------------------------------------- binary64 arithmetic
\* Python floats are IEEE binary64: every operation returns the exact result
\* rounded to 53 significant bits, ties to even. A natural too wide for a
\* machine word is kept as eight digits to base 2^15, least significant first.
BigDigits == 1..8

\* F applied to the values of its operands, each computed once.
Strict(F(_), x) == CHOOSE r \in {F(v) : v \in {x}} : TRUE

Strict2(F(_, _), x, y) == CHOOSE r \in {F(v, w) : v \in {x}, w \in {y}} : TRUE

\* The digits of f.
Big(f) == <<f[1], f[2], f[3], f[4], f[5], f[6], f[7], f[8]>>

BigOf(n) ==
    Big([i \in BigDigits |->
        IF i = 1 THEN n % 32768
        ELSE IF i = 2 THEN (n \div 32768) % 32768
        ELSE IF i = 3 THEN n \div (32768 * 32768)
        ELSE 0])

BigLess(a, b) ==
    Strict2(LAMBDA x, y :
                \E i \in BigDigits :
                    x[i] < y[i] /\ \A j \in BigDigits : j > i => x[j] = y[j],
            a, b)

BigDouble(a) ==
    Strict(LAMBDA x :
               Big([i \in BigDigits |->
                   (2 * x[i] + (IF i > 1 /\ x[i - 1] >= 16384 THEN 1 ELSE 0)) % 32768]),
           a)

\* a + 1.
BigInc(a) ==
    Strict(LAMBDA x :
               Big([i \in BigDigits |->
                   (x[i] + (IF \A j \in 1..(i - 1) : x[j] = 32767 THEN 1 ELSE 0))
                       % 32768]),
           a)

\* a - b, for a >= b.
BigSub(a, b) ==
    Strict2(LAMBDA x, y :
                Big([i \in BigDigits |->
                    LET borrow == \E j \in 1..(i - 1) :
                                      x[j] < y[j] /\ \A k \in (j + 1)..(i - 1) : x[k] = y[k]
                    IN  (x[i] - y[i] - (IF borrow THEN 1 ELSE 0) + 32768) % 32768]),
            a, b)

\* a * 2^k, for a product below 2^120.
BigShift(a, k) ==
    Strict(LAMBDA x :
               Big([i \in BigDigits |->
                   LET here == IF i - (k \div 15) >= 1 THEN x[i - (k \div 15)] ELSE 0
                       below == IF i - (k \div 15) >= 2 THEN x[i - (k \div 15) - 1] ELSE 0
                   IN  ((here * 2^(k % 15)) % 32768) + (below \div 2^(15 - (k % 15)))]),
           a)

\* The doublings that bring n up to d <= n * 2^k < 2 * d (n < d * 2^60).
Normalise(n, d) ==
    Strict2(LAMBDA x, y :
                CHOOSE k \in 0..60 :
                    /\ ~BigLess(BigShift(x, k), y)
                    /\ k = 0 \/ BigLess(BigShift(x, k - 1), y),
            n, d)

\* One step of restoring division by d from s = [q, r], for r < 2 * d: a
\* quotient bit is appended to q, the remainder is left doubled in r.
DivideStep(s, d) ==
    IF BigLess(s.r, d)
    THEN [q |-> BigDouble(s.q), r |-> BigDouble(s.r)]
    ELSE [q |-> BigInc(BigDouble(s.q)), r |-> BigDouble(BigSub(s.r, d))]

RECURSIVE Divide(_, _, _)
\* i steps.
Divide(s, d, i) ==
    IF i = 0 THEN s
    ELSE Strict2(LAMBDA x, y : Divide(DivideStep(x, y), y, i - 1), s, d)

\* The 53 quotient bits of n / d rounded to nearest, ties to even, for
\* d <= n < 2 * d; k is the exponent's negative.
Rounded(n, d, k) ==
    Strict(LAMBDA qr :
               Strict(LAMBDA q :
                          IF q = BigShift(BigOf(1), 53)
                          THEN [m |-> BigShift(BigOf(1), 52), e |-> 1 - k]
                          ELSE [m |-> q, e |-> 0 - k],
                      IF BigLess(d, qr.r) \/ (qr.r = d /\ qr.q[1] % 2 = 1)
                      THEN BigInc(qr.q) ELSE qr.q),
           Divide(Divide(Divide([q |-> BigOf(0), r |-> n], d, 18), d, 18), d, 17))

\* The binary64 nearest to n / m (0 < n / m < 2^53): m * 2^e with a 53-bit m.
Round53(n, m) ==
    Strict2(LAMBDA x, d :
                Strict(LAMBDA k : Rounded(BigShift(x, k), d, k), Normalise(x, d)),
            n, BigShift(m, 52))

\* float() of a decimal with two places, given in hundredths.
FloatOf(hundredths) == Round53(BigOf(hundredths), BigOf(100))

\* a / b.
FloatDiv(a, b) ==
    Strict2(LAMBDA x, y :
                Strict(LAMBDA q : [m |-> q.m, e |-> q.e + x.e - y.e],
                       Round53(x.m, y.m)),
            a, b)

\* a >= b.
FloatGeq(a, b) ==
    Strict2(LAMBDA x, y : x.e > y.e \/ (x.e = y.e /\ ~BigLess(x.m, y.m)), a, b)

\* A "days:percent,..." string, as its comma-separated items: a <<days,
\* percent>> pair, or an item without a colon.
NoColon == <<>>

\* Insert a pair after the pairs whose days are not larger (stable sort).
SortedInsert(sorted, pair) ==
    LET k == Cardinality({i \in 1..Len(sorted) : sorted[i][1] <= pair[1]})
    IN  SubSeq(sorted, 1, k) \o <<pair>> \o SubSeq(sorted, k + 1, Len(sorted))

RECURSIVE ParsePairs(_, _)
ParsePairs(items, sorted) ==
    IF items = <<>> THEN sorted
    ELSE IF Head(items) = NoColon THEN ParsePairs(Tail(items), sorted)
    ELSE ParsePairs(Tail(items), SortedInsert(sorted, Head(items)))

_parse_steps(steps_str) == ParsePairs(steps_str, <<>>)

_parse_tiers(tiers_str) == ParsePairs(tiers_str, <<>>)

\* The configured ladders: "7:5,14:10,30:15,45:20" and "0:5,14:10,30:15,45:20".
RepriceSteps == <<<<7, 5>>, <<14, 10>>, <<30, 15>>, <<45, 20>>>>
OfferTiers == <<<<0, 5>>, <<14, 10>>, <<30, 15>>, <<45, 20>>>>

\* A SKU is a string: the sequence of its characters.
InitSku(l) == IF l = 1 THEN <<"A">> ELSE IF l = 2 THEN <<"B">> ELSE <<"C">>

\* SKUs a listing may have been created with: plain, with a resurrection
\* suffix already, with "_R" inside, and with both.
OriginalSkus ==
    {<<"A">>,
     <<"A", "_", "R", "7">>,
     <<"A", "_", "R", "E", "D">>,
     <<"A", "_", "R", "O", "T">>,
     <<"A", "_", "R", "E", "D", "_", "R", "7">>}

DigitChars == <<"0", "1", "2", "3", "4", "5", "6", "7", "8", "9">>

\* str(n) for n >= 0.
RECURSIVE Str(_)
Str(n) ==
    IF n < 10 THEN <<DigitChars[n + 1]>>
    ELSE Str(n \div 10) \o <<DigitChars[(n % 10) + 1]>>

\* s.split("_R")[0]: what comes before the first "_R" of s, or all of s.
SplitFirst(s) ==
    LET hits == {i \in 1..(Len(s) - 1) : s[i] = "_" /\ s[i + 1] = "R"}
    IN  IF hits = {} THEN s
        ELSE SubSeq(s, 1, (CHOOSE i \in hits : \A j \in hits : i <= j) - 1)

InitPhotos(l) == IF l = 1 THEN <<"a", "b", "c">> ELSE <<"a">>

NewListing(l) ==
    [id |-> l,
     status |-> DRAFT,
     sku |-> InitSku(l),
     ebay_item_id |-> None,
     offer_id |-> None,
     purchase_price |-> 2000,
     list_price |-> 5000,
     current_price |-> None,
     shipping_cost |-> 500,
     ad_rate_percent |-> 0,
     days_active |-> 0,
     total_views |-> 0,
     watchers |-> 0,
     zombie_cycle_count |-> 0,
     photo_urls |-> InitPhotos(l),
     last_repriced_at |-> Never]

\* zombie_records is append-only and no policy reads it: the model keeps the
\* rows the last call appended (records), and the values the call assigned
\* to zombie_cycle_count, in order (cycle_writes: <<listing, old, new>>).
\* failed names the gateway call that raised, when one did; raised says that
\* the call itself raised to its caller, so that its session was rolled back.
\* detail holds what else the call was given or returned.
\* kind is the class of the exception the gateway raised in a scan or batch
\* run: EbayAuthError or another EbayError ("" when no call raised).
NoError == ""
ErrorKinds == {"Auth", "GatewayError"}

\* The kind of error a run meets: one of the kinds exactly when a call raised.
KindFits(kind, call_raised) ==
    IF call_raised THEN kind \in ErrorKinds ELSE kind = NoError

NoCall == [op |-> "none", listing |-> None, ok |-> TRUE, failed |-> "", raised |-> FALSE,
           kind |-> NoError, detail |-> <<>>,
           relisted |-> {}, errors |-> {}, records |-> <<>>, cycle_writes |-> <<>>]

Call(op, l, ok) == [NoCall EXCEPT !.op = op, !.listing = l, !.ok = ok]

\* The part of the state a pipeline reads and writes.
World == [listings |-> listings, entries |-> entries,
          gwOffers |-> gwOffers, gwInventory |-> gwInventory,
          nextOfferId |-> nextOfferId,
          records |-> <<>>, cycle_writes |-> <<>>, calls |-> <<>>]

\* calls lists, in order, the gateway calls a pipeline completed, its waits
\* ("sleep") and its assignment of the listing row ("update_listing").
\* Seeded fault: the session is committed although the body raised.
get_db_commit(before, after, raised) == after

\* The session scope around a call: what the body left in the session is
\* committed when the body returns, and rolled back when it raises.  The
\* gateway is outside the session and keeps what the calls did to it.
get_db(before, after, raised) ==
    IF raised
    THEN [after EXCEPT !.listings = before.listings,
                       !.entries = before.entries,
                       !.records = <<>>]
    ELSE after

SetWorld(w) ==
    /\ listings' = w.listings
    /\ entries' = w.entries
    /\ gwOffers' = w.gwOffers
    /\ gwInventory' = w.gwInventory
    /\ nextOfferId' = w.nextOfferId

\* --------------------------------------------------------------- Resurrector
\* The gateway gives every published offer a marketplace listing id of its
\* own; the model names the listing id after the offer it was issued for.
publish_offer(offer_id) == offer_id

_rotate_photos(photo_urls) ==
    IF Len(photo_urls) < 2 THEN photo_urls
    ELSE <<photo_urls[2], photo_urls[1]>> \o SubSeq(photo_urls, 3, Len(photo_urls))

_generate_resurrection_sku(original_sku, cycle) ==
    SplitFirst(original_sku) \o <<"_", "R">> \o Str(cycle)

\* Every SKU a run can give a listing or an inventory item.
Skus ==
    LET created == OriginalSkus \cup {InitSku(l) : l \in ListingIds}
    IN  created \cup {_generate_resurrection_sku(s, cycle) :
                        s \in created, cycle \in 1..(MaxIds + 1)}

ResurrectOutcomes ==
    {"ok", "withdraw_offer", "create_inventory_item", "create_offer", "publish_offer"}

\* Seeded fault: step 6 forgets to reset the watcher count.
ResurrectUpdate_watchers(listing, new_sku, new_item_id, offer_id, cycle, rotated_photos) ==
    [listing EXCEPT !.sku = new_sku,
                    !.ebay_item_id = new_item_id,
                    !.offer_id = offer_id,
                    !.status = ACTIVE,
                    !.zombie_cycle_count = cycle,
                    !.days_active = 0,
                    !.total_views = 0,
                    !.photo_urls = rotated_photos]

\* Step 6 of the pipeline: the listing row after a successful publish.
ResurrectUpdate(listing, new_sku, new_item_id, offer_id, cycle, rotated_photos) ==
    [listing EXCEPT !.sku = new_sku,
                    !.ebay_item_id = new_item_id,
                    !.offer_id = offer_id,
                    !.status = ACTIVE,
                    !.zombie_cycle_count = cycle,
                    !.days_active = 0,
                    !.total_views = 0,
                    !.watchers = 0,
                    !.photo_urls = rotated_photos]

\* The ZombieRecord resurrect appends; it reads the row after step 6.
ResurrectRecord(listing, old_item_id, new_item_id, cycle) ==
    [listing_id |-> listing.id,
     days_active_at_detection |-> listing.days_active,
     views_at_detection |-> listing.total_views,
     action_taken |-> RESURRECTED,
     old_item_id |-> old_item_id,
     new_item_id |-> new_item_id,
     cycle_number |-> cycle]

\* Seeded fault: the abort path stores the cycle it was about to assign.
_fail_counting(w, listing, cycle) ==
    [w |-> [w EXCEPT !.listings[listing.id].zombie_cycle_count = cycle],
     success |-> FALSE, raised |-> FALSE]

\* The structured failure: the world as the steps before the abort left it.
_fail(w, listing, cycle) == [w |-> w, success |-> FALSE, raised |-> FALSE]

\* listings.sku is unique: the flush of a row whose new SKU another row
\* holds raises an integrity error.
SkuTaken(w, l, new_sku) ==
    \E other \in DOMAIN w.listings \ {l} : w.listings[other].sku = new_sku

\* Seeded fault: the pipeline goes on without the cooldown wait.
Withdrawn_nowait(w, old_offer_id) ==
    IF old_offer_id # None
    THEN [w EXCEPT !.gwOffers[old_offer_id] = "WITHDRAWN",
                   !.calls = @ \o <<"withdraw_offer">>]
    ELSE w

\* Steps 1 and 2: the old offer, when the row names one, is withdrawn; then
\* the pipeline waits for the configured cooldown.
Withdrawn(w, old_offer_id) ==
    LET w1 == IF old_offer_id # None
              THEN [w EXCEPT !.gwOffers[old_offer_id] = "WITHDRAWN",
                             !.calls = @ \o <<"withdraw_offer">>]
              ELSE w
    IN  IF ResurrectionDelaySeconds > 0
        THEN [w1 EXCEPT !.calls = @ \o <<"sleep">>]
        ELSE w1

\* Resurrector.resurrect on listing l; outcome names the gateway call that
\* raises, or "ok".  Returns the world the call leaves in its session and at
\* the gateway, its success flag, and whether it raised (at the flush).
resurrect(w, l, outcome) ==
    LET listing == w.listings[l]
        old_item_id == listing.ebay_item_id
        old_offer_id == listing.offer_id
        cycle == listing.zombie_cycle_count + 1
        new_sku == _generate_resurrection_sku(listing.sku, cycle)
        w1 == Withdrawn(w, old_offer_id)
        rotated_photos == _rotate_photos(listing.photo_urls)
        w2 == [w1 EXCEPT !.gwInventory[new_sku] = listing.list_price,
                         !.calls = @ \o <<"create_inventory_item">>]
        offer_id == w.nextOfferId
        w3 == [w2 EXCEPT !.gwOffers[offer_id] = "CREATED",
                         !.nextOfferId = @ + 1,
                         !.calls = @ \o <<"create_offer">>]
        new_item_id == publish_offer(offer_id)
        w4 == [w3 EXCEPT !.gwOffers[offer_id] = "PUBLISHED",
                         !.calls = @ \o <<"publish_offer">>]
        updated == ResurrectUpdate(listing, new_sku, new_item_id, offer_id,
                                   cycle, rotated_photos)
        w5 == [w4 EXCEPT
                 !.listings[l] = updated,
                 !.calls = @ \o <<"update_listing">>,
                 !.records =
                     Append(@, ResurrectRecord(updated, old_item_id, new_item_id, cycle)),
                 !.cycle_writes =
                     Append(@, <<l, listing.zombie_cycle_count, cycle>>)]
    IN  CASE outcome = "withdraw_offer" -> _fail(w, listing, cycle)
          [] outcome = "create_inventory_item" -> _fail(w1, listing, cycle)
          [] outcome = "create_offer" -> _fail(w2, listing, cycle)
          [] outcome = "publish_offer" -> _fail(w3, listing, cycle)
          [] OTHER -> IF SkuTaken(w, l, new_sku)
                      THEN [w |-> w5, success |-> FALSE, raised |-> TRUE]
                      ELSE [w |-> w5, success |-> TRUE, raised |-> FALSE]

\* What a resurrect with this outcome needs from the bounded gateway and log.
ResurrectFits(w, l, outcome) ==
    /\ outcome = "withdraw_offer" => w.listings[l].offer_id # None
    /\ outcome \in {"ok", "publish_offer"} => w.nextOfferId <= MaxIds

Resurrect(l, outcome) ==
    /\ ResurrectFits(World, l, outcome)
    /\ LET res == resurrect(World, l, outcome)
           committed == get_db(World, res.w, res.raised)
       IN  /\ SetWorld(committed)
           /\ last' = [Call("resurrect", l, res.success)
                         EXCEPT !.failed = IF res.raised THEN "flush"
                                           ELSE IF res.success THEN "" ELSE outcome,
                                !.raised = res.raised,
                                !.detail = res.w.calls,
                                !.records = committed.records,
                                !.cycle_writes = res.w.cycle_writes]
    /\ UNCHANGED growthVars

\* -------------------------------------------------------------- AutoRelister
_is_due_for_relist(listing) ==
    /\ listing.status = ACTIVE
    /\ listing.days_active >= RelistCadenceDays
    /\ listing.total_views < RelistViewsThreshold
    /\ listing.offer_id # None

\* Seeded faults: the restore is left out; the restore writes one less.
RestoreCycle_skip(listing, old_cycle) == listing

RestoreCycle_under(listing, old_cycle) ==
    [listing EXCEPT !.zombie_cycle_count = IF old_cycle > 0 THEN old_cycle - 1 ELSE 0]

\* The write that undoes the pipeline's increment after a preventive relist.
RestoreCycle(listing, old_cycle) ==
    [listing EXCEPT !.zombie_cycle_count = old_cycle]

PreventiveRecord(listing, old_item_id, new_item_id) ==
    [listing_id |-> listing.id,
     days_active_at_detection |-> listing.days_active,
     views_at_detection |-> listing.total_views,
     action_taken |-> PREVENTIVE_RELIST,
     old_item_id |-> old_item_id,
     new_item_id |-> new_item_id,
     cycle_number |-> 0]

\* One iteration of auto_relist's loop, over a listing that was active when
\* the run started.  acc = [w, relisted, errors, raised]; resurrect is
\* called outside any try, so a raise of it ends the run.
RelistOne(acc, l, outcome) ==
    LET listing == acc.w.listings[l]
    IN  IF acc.raised \/ ~_is_due_for_relist(listing) THEN acc
        ELSE
          LET old_item_id == listing.ebay_item_id
              old_cycle == listing.zombie_cycle_count
              res == resurrect(acc.w, l, outcome)
              after == res.w.listings[l]
              restored == RestoreCycle(after, old_cycle)
          IN  IF res.raised
              THEN [acc EXCEPT !.w = res.w, !.raised = TRUE]
              ELSE IF ~res.success
              THEN [acc EXCEPT !.w = res.w, !.errors = @ \cup {l}]
              ELSE [acc EXCEPT
                      !.w = [res.w EXCEPT
                               !.listings[l] = restored,
                               !.records =
                                   Append(@, PreventiveRecord(restored, old_item_id,
                                                              after.ebay_item_id)),
                               !.cycle_writes =
                                   Append(@, <<l, after.zombie_cycle_count,
                                               restored.zombie_cycle_count>>)],
                      !.relisted = @ \cup {l}]

RECURSIVE RelistAll(_, _, _)
RelistAll(acc, todo, outcomes) ==
    IF todo = {} THEN acc
    ELSE LET l == CHOOSE x \in todo : \A y \in todo : x <= y
         IN  RelistAll(RelistOne(acc, l, outcomes[l]), todo \ {l}, outcomes)

ActiveListings(w) == {l \in DOMAIN w.listings : w.listings[l].status = ACTIVE}

auto_relist(w, outcomes) ==
    RelistAll([w |-> w, relisted |-> {}, errors |-> {}, raised |-> FALSE],
              ActiveListings(w), outcomes)

\* Every step of the run fits the bounded gateway and log.
RECURSIVE RelistFits(_, _, _)
RelistFits(w, todo, outcomes) ==
    IF todo = {} THEN TRUE
    ELSE LET l == CHOOSE x \in todo : \A y \in todo : x <= y
             due == _is_due_for_relist(w.listings[l])
         IN  /\ due => ResurrectFits(w, l, outcomes[l])
             /\ ~due => outcomes[l] = "ok"
             /\ RelistFits(RelistOne([w |-> w, relisted |-> {}, errors |-> {},
                                      raised |-> FALSE],
                                     l, outcomes[l]).w,
                           todo \ {l}, outcomes)

AutoRelist(outcomes, kind) ==
    /\ \A l \in DOMAIN listings \ ActiveListings(World) : outcomes[l] = "ok"
    /\ RelistFits(World, ActiveListings(World), outcomes)
    /\ LET res == auto_relist(World, outcomes)
           committed == get_db(World, res.w, res.raised)
       IN  /\ KindFits(kind, res.errors # {})
           /\ SetWorld(committed)
           /\ last' = [Call("auto_relist", None, ~res.raised)
                         EXCEPT !.kind = kind,
                                !.failed = IF res.raised THEN "flush" ELSE "",
                                !.raised = res.raised,
                                !.relisted = res.relisted,
                                !.errors = res.errors,
                                !.records = committed.records,
                                !.cycle_writes = res.w.cycle_writes]
    /\ UNCHANGED growthVars

\* -------------------------------------------------------------- ZombieKiller
FlagRecord(listing, action) ==
    [listing_id |-> listing.id,
     days_active_at_detection |-> listing.days_active,
     views_at_detection |-> listing.total_views,
     action_taken |-> action,
     old_item_id |-> None,
     new_item_id |-> None,
     cycle_number |-> listing.zombie_cycle_count + 1]

flag_zombie(listing) ==
    IF listing.zombie_cycle_count >= MaxZombieCycles
    THEN [listing EXCEPT !.status = PURGATORY]
    ELSE [listing EXCEPT !.status = ZOMBIE]

FlagZombie(l) ==
    /\ LET flagged == flag_zombie(listings[l])
           action == IF listings[l].zombie_cycle_count >= MaxZombieCycles
                     THEN PURGATORED ELSE FLAGGED
       IN  /\ listings' = [listings EXCEPT ![l] = flagged]
           /\ last' = [Call("flag_zombie", l, TRUE)
                         EXCEPT !.records = <<FlagRecord(flagged, action)>>]
    /\ UNCHANGED <<entries, gwOffers, gwInventory, nextOfferId>>
    /\ UNCHANGED growthVars

\* The zombie test of the scan, on a listing's age and its current views.
IsZombie(days_active, views) ==
    days_active >= ZombieDaysThreshold /\ views < ZombieViewsThreshold

\* The ZombieReports of a scan: views come from the traffic report for a
\* listing with an item id, from the row otherwise.
ZombieReports(ls, traffic) ==
    LET views(l) == IF ls[l].ebay_item_id # None THEN traffic[l] ELSE ls[l].total_views
    IN  {[listing_id |-> l,
          days_active |-> ls[l].days_active,
          total_views |-> views(l),
          zombie_cycle_count |-> ls[l].zombie_cycle_count,
          should_purgatory |-> ls[l].zombie_cycle_count >= MaxZombieCycles] :
            l \in {x \in DOMAIN ls : /\ ls[x].status = ACTIVE
                                       /\ IsZombie(ls[x].days_active, views(x))}}

\* ZombieKiller.scan: the report is read-only except that the traffic
\* report's views are written back to every active listing with an item id.
\* get_traffic_report is called outside any try: when it raises, so does the
\* scan, before it has written anything.
ZombieScan(traffic, report_ok) ==
    /\ \E l \in DOMAIN listings :
          listings[l].status = ACTIVE /\ listings[l].ebay_item_id # None
    /\ IF report_ok
       THEN /\ listings' = [l \in DOMAIN listings |->
                              IF listings[l].status = ACTIVE
                                    /\ listings[l].ebay_item_id # None
                              THEN [listings[l] EXCEPT !.total_views = traffic[l]]
                              ELSE listings[l]]
            /\ listings' # listings
            /\ last' = [Call("scan", None, TRUE)
                          EXCEPT !.detail = ZombieReports(listings, traffic)]
       ELSE /\ \A l \in DOMAIN listings : traffic[l] = 0
            /\ listings' = listings
            /\ last' = [Call("scan", None, FALSE)
                          EXCEPT !.failed = "get_traffic_report", !.raised = TRUE]
    /\ UNCHANGED <<entries, gwOffers, gwInventory, nextOfferId>>
    /\ UNCHANGED growthVars

\* The external collector ages an active listing and counts its watchers.
Collect(l, days) ==
    /\ listings[l].status = ACTIVE
    /\ days >= listings[l].days_active
    /\ listings' = [listings EXCEPT ![l].days_active = days,
                                    ![l].watchers = 1]
    /\ listings' # listings
    /\ last' = Call("collect", l, TRUE)
    /\ UNCHANGED <<entries, gwOffers, gwInventory, nextOfferId>>
    /\ UNCHANGED growthVars

\* ----------------------------------------------------------------- Purgatory
calculate_markdown_price(listing) ==
    \* round(break_even * (1 - sale_percent / 100), 2), with
    \* break_even = (cost + shipping + per_order_fee) / (1 - base_fee - payment)
    RoundDiv((listing.purchase_price + listing.shipping_cost + PerOrderFeeCents)
                * 10000 * (100 - PurgatorySalePercent),
             (10000 - BaseFeeBp - PaymentProcessingBp) * 100)

bulk_update_price_quantity(inventory, updates) ==
    [s \in Skus |->
        IF inventory[s] # None /\ \E u \in updates : u.sku = s
        THEN (CHOOSE u \in updates : u.sku = s).price
        ELSE inventory[s]]

\* The row is changed before the price is pushed; a failed push returns
\* success = False and the session still commits what was changed.
enter_purgatory(listing) ==
    [listing EXCEPT !.status = PURGATORY,
                    !.current_price = calculate_markdown_price(listing)]

EnterPurgatory(l, push_ok) ==
    /\ LET moved == enter_purgatory(listings[l])
       IN  /\ listings' = [listings EXCEPT ![l] = moved]
           /\ gwInventory' =
                 IF push_ok
                 THEN bulk_update_price_quantity(gwInventory,
                         {[sku |-> moved.sku, price |-> moved.current_price]})
                 ELSE gwInventory
    /\ last' = Call("enter_purgatory", l, push_ok)
    /\ UNCHANGED <<entries, gwOffers, nextOfferId>>
    /\ UNCHANGED growthVars

\* ---------------------------------------------------------------- SmartQueue
Enqueue(l, priority) ==
    /\ Len(entries) < MaxEntries
    /\ entries' = Append(entries,
                         [listing_id |-> l, priority |-> priority, status |-> PENDING,
                          error_message |-> "", batch_id |-> None])
    /\ listings' = [listings EXCEPT ![l].status = QUEUED]
    /\ last' = Call("enqueue", l, TRUE)
    /\ UNCHANGED <<gwOffers, gwInventory, nextOfferId>>
    /\ UNCHANGED growthVars

\* created_at of the i-th entry: rows get their timestamps as they are
\* created, one enqueue call after another.
created_at(es, i) == i

\* Seeded fault: the batch is taken in creation order alone.
Before_fifo(es, i, j) == created_at(es, i) < created_at(es, j)

\* Entry i comes before entry j in "priority desc, created_at asc".
Before(es, i, j) ==
    \/ es[i].priority > es[j].priority
    \/ es[i].priority = es[j].priority /\ created_at(es, i) < created_at(es, j)

\* uuid4: an id no earlier batch has.
NewBatchId(es) ==
    LET used == {es[i].batch_id : i \in 1..Len(es)} \cup {None}
    IN  1 + CHOOSE b \in used : \A x \in used : x <= b

PendingIdx(es) == {i \in 1..Len(es) : es[i].status = PENDING}

\* A datetime: its weekday (Monday 0) and hour, and its UTC offset in hours
\* when it is aware.  A time zone is its UTC offset.
Datetimes ==
    [weekday : 0..6, hour : DatetimeHours, aware : {TRUE}, utcoffset : DatetimeOffsets]
        \cup [weekday : 0..6, hour : DatetimeHours, aware : {FALSE}, utcoffset : {0}]

WEEKDAY_MAP ==
    [monday |-> 0, tuesday |-> 1, wednesday |-> 2, thursday |-> 3,
     friday |-> 4, saturday |-> 5, sunday |-> 6]

\* str.lower() on the configured day names.
lower(name) == IF name = "Sunday" THEN "sunday" ELSE name

\* The SmartQueue built from the default configuration.
DefaultSurge ==
    [surge_day |-> lower("sunday"), surge_start |-> 20, surge_end |-> 22, tz |-> -5]

\* tz.localize(now): the wall clock is kept.
localize(now, tz) == [now EXCEPT !.aware = TRUE, !.utcoffset = tz]

\* Seeded fault: the wall clock is kept for an aware datetime as well.
astimezone_wall(now, tz) == [now EXCEPT !.utcoffset = tz]

\* now.astimezone(tz): the same instant on tz's wall clock.
astimezone(now, tz) ==
    LET h == (now.weekday * 24 + now.hour - now.utcoffset + tz + 168) % 168
    IN  [weekday |-> h \div 24, hour |-> h % 24, aware |-> TRUE, utcoffset |-> tz]

is_surge_window_active(self, t) ==
    LET now == IF ~t.aware THEN localize(t, self.tz) ELSE astimezone(t, self.tz)
        target_day == IF self.surge_day \in DOMAIN WEEKDAY_MAP
                      THEN WEEKDAY_MAP[self.surge_day] ELSE 6
    IN  /\ now.weekday = target_day
        /\ self.surge_start <= now.hour /\ now.hour < self.surge_end

IsSurgeWindowActive(now) ==
    /\ last' = [Call("is_surge_window_active", None, TRUE)
                  EXCEPT !.detail = [now |-> now,
                                     active |-> is_surge_window_active(surge, now)]]
    /\ UNCHANGED <<listings, entries, gwOffers, gwInventory, nextOfferId>>
    /\ UNCHANGED growthVars

\* The indices release_batch selects: the first batch_size pending entries.
SelectBatch(es, limit) ==
    {i \in PendingIdx(es) :
        Cardinality({j \in PendingIdx(es) : Before(es, j, i)}) < limit}

ReleaseOutcomes == {"ok", "create_offer", "publish_offer"}

\* Seeded fault: a publish that fails leaves the created offer on the row.
ReleaseOne_halfway(w, i, outcome, batch_id) ==
    LET listing == w.listings[w.entries[i].listing_id]
        offer_id == w.nextOfferId
    IN  CASE outcome = "create_offer" ->
                [w EXCEPT !.entries[i].status = FAILED,
                          !.entries[i].error_message = outcome]
          [] outcome = "publish_offer" ->
                [w EXCEPT !.entries[i].status = FAILED,
                          !.entries[i].error_message = outcome,
                          !.gwOffers[offer_id] = "CREATED",
                          !.nextOfferId = @ + 1,
                          !.listings[listing.id].offer_id = offer_id]
          [] OTHER ->
                [w EXCEPT !.entries[i].status = RELEASED,
                          !.entries[i].batch_id = batch_id,
                          !.gwOffers[offer_id] = "PUBLISHED",
                          !.nextOfferId = @ + 1,
                          !.listings[listing.id] =
                              [listing EXCEPT !.ebay_item_id = publish_offer(offer_id),
                                              !.offer_id = offer_id,
                                              !.status = ACTIVE,
                                              !.days_active = 0]]

\* One iteration of release_batch's loop.
ReleaseOne(w, i, outcome, batch_id) ==
    LET listing == w.listings[w.entries[i].listing_id]
        offer_id == w.nextOfferId
        item_id == publish_offer(offer_id)
    IN  CASE outcome = "create_offer" ->
                [w EXCEPT !.entries[i].status = FAILED,
                          !.entries[i].error_message = outcome]
          [] outcome = "publish_offer" ->
                [w EXCEPT !.entries[i].status = FAILED,
                          !.entries[i].error_message = outcome,
                          !.gwOffers[offer_id] = "CREATED",
                          !.nextOfferId = @ + 1,
                          !.calls = @ \o <<"create_offer">>]
          [] OTHER ->
                [w EXCEPT !.entries[i].status = RELEASED,
                          !.entries[i].batch_id = batch_id,
                          !.gwOffers[offer_id] = "PUBLISHED",
                          !.nextOfferId = @ + 1,
                          !.calls = @ \o <<"create_offer", "publish_offer">>,
                          !.listings[listing.id] =
                              [listing EXCEPT !.ebay_item_id = item_id,
                                              !.offer_id = offer_id,
                                              !.status = ACTIVE,
                                              !.days_active = 0]]

RECURSIVE ReleaseAll(_, _, _, _)
ReleaseAll(w, todo, outcomes, batch_id) ==
    IF todo = {} THEN w
    ELSE Strict2(LAMBDA v, i :
                   Strict(LAMBDA next : ReleaseAll(next, todo \ {i}, outcomes, batch_id),
                          ReleaseOne(v, i, outcomes[i], batch_id)),
                 w,
                 CHOOSE x \in todo : \A y \in todo \ {x} : Before(w.entries, x, y))

\* Seeded fault: the dry_run flag is not looked at.
release_batch_wet(w, limit, outcomes, dry_run) ==
    ReleaseAll(w, SelectBatch(w.entries, limit), outcomes, NewBatchId(w.entries))

\* With dry_run the selection is returned as it was read.
release_batch(w, limit, outcomes, dry_run) ==
    IF dry_run THEN w
    ELSE Strict(LAMBDA v :
                  ReleaseAll(v, SelectBatch(v.entries, limit), outcomes,
                             NewBatchId(v.entries)),
                w)

\* release_batch(dry_run=True); no gateway call of it can fail.
ReleaseBatchDryRun ==
    LET batch == SelectBatch(entries, batch_size)
        res == release_batch(World, batch_size, [i \in DOMAIN entries |-> "ok"], TRUE)
    IN  /\ SetWorld(res)
        /\ last' = [Call("release_batch_dry_run", None, TRUE)
                      EXCEPT !.detail = [selected |-> batch,
                                         outcomes |-> <<>>,
                                         released |-> {},
                                         calls |-> res.calls]]
        /\ last' # last
        /\ UNCHANGED growthVars

ReleaseBatch(outcomes, kind) ==
    \E batch \in {SelectBatch(entries, batch_size)},
       res \in {release_batch(World, batch_size, outcomes, FALSE)} :
        /\ batch # {}
        /\ \A i \in (DOMAIN outcomes) \ batch : outcomes[i] = "ok"
        /\ nextOfferId + Cardinality({i \in batch : outcomes[i] # "create_offer"})
              <= MaxIds + 1
        /\ KindFits(kind, \E i \in batch : outcomes[i] # "ok")
        /\ SetWorld(res)
        /\ last' = [Call("release_batch", None, \A i \in batch : outcomes[i] = "ok")
                      EXCEPT !.kind = kind,
                             !.detail =
                                 [selected |-> batch,
                                  outcomes |-> [i \in batch |-> outcomes[i]],
                                  released |-> {i \in batch :
                                                  res.entries[i].status = RELEASED},
                                  calls |-> res.calls]]
        /\ UNCHANGED growthVars

\* ---------------------------------------------------------------- OfferSniper
\* A watcher without a buyerId.
NoBuyer == ""

\* What get_watchers may return for a listing: repeated and id-less watchers
\* included.
WatcherLists == UNION {[1..n -> Buyers \cup {NoBuyer}] : n \in 0..MaxWatchers}

get_discount_percent(tiers, days_active) ==
    LET hit == {i \in 1..Len(tiers) : days_active >= tiers[i][1]}
    IN  IF tiers = <<>> THEN DefaultDiscountPercent
        ELSE IF hit = {} THEN tiers[1][2]
        ELSE tiers[CHOOSE i \in hit : \A j \in hit : j <= i][2]

calculate_offer_price(tiers, current_price, days_active) ==
    RoundDiv(current_price * (100 - get_discount_percent(tiers, days_active)), 100)

\* Seeded fault: the cooldown window is half as long.
_was_offer_sent_recently_half(records, listing_id, buyer_id, now) ==
    \E i \in 1..Len(records) :
        /\ records[i].listing_id = listing_id
        /\ records[i].buyer_id = buyer_id
        /\ 2 * records[i].sent_at >= 2 * now - CooldownHours

_was_offer_sent_recently(records, listing_id, buyer_id, now) ==
    \E i \in 1..Len(records) :
        /\ records[i].listing_id = listing_id
        /\ records[i].buyer_id = buyer_id
        /\ records[i].sent_at >= now - CooldownHours

\* current_price or list_price
PriceOf(listing) ==
    IF listing.current_price # None THEN listing.current_price ELSE listing.list_price

\* The inner loop of scan_and_snipe over listing l's watchers, from the k-th.
\* acc = [records, sent, offers_sent, errors].
RECURSIVE SnipeWatchers(_, _, _, _, _, _)
SnipeWatchers(acc, listing, watchers, k, send_fails, now) ==
    IF k > Len(watchers) THEN acc
    ELSE
      LET buyer_id == watchers[k]
          offer_price == calculate_offer_price(_parse_tiers(OfferTiers),
                                               PriceOf(listing), listing.days_active)
          record == [listing_id |-> listing.id,
                     buyer_id |-> buyer_id,
                     offer_price |-> offer_price,
                     discount_bp |->
                         100 * get_discount_percent(_parse_tiers(OfferTiers),
                                                    listing.days_active),
                     sent_at |-> now,
                     status |-> SENT]
          next ==
            IF buyer_id = NoBuyer THEN acc
            ELSE IF _was_offer_sent_recently(acc.records, listing.id, buyer_id, now)
            THEN acc
            ELSE IF buyer_id \in send_fails
            THEN [acc EXCEPT !.errors = @ + 1]
            ELSE [acc EXCEPT !.records = Append(@, record),
                             !.sent = Append(@, <<listing.id, buyer_id, now>>),
                             !.offers_sent = @ + 1]
      IN  SnipeWatchers(next, listing, watchers, k + 1, send_fails, now)

\* The outer loop, over the active listings that have a marketplace item id.
RECURSIVE SnipeAll(_, _, _, _, _, _)
SnipeAll(acc, todo, watchers, watch_fails, send_fails, now) ==
    IF todo = {} THEN acc
    ELSE
      LET l == CHOOSE x \in todo : \A y \in todo : x <= y
          next == IF l \in watch_fails
                  THEN [acc EXCEPT !.errors = @ + 1]
                  ELSE SnipeWatchers(acc, listings[l], watchers[l], 1, send_fails, now)
      IN  SnipeAll(next, todo \ {l}, watchers, watch_fails, send_fails, now)

SnipeTargets ==
    {l \in DOMAIN listings :
        listings[l].status = ACTIVE /\ listings[l].ebay_item_id # None}

\* watchers: what get_watchers returns for each listing; watch_fails: the
\* listings whose get_watchers call raises; send_fails: the buyers whose
\* send_offer_to_buyer call raises.
scan_and_snipe(watchers, watch_fails, send_fails) ==
    SnipeAll([records |-> offerRecords, sent |-> sentOffers,
              offers_sent |-> 0, errors |-> 0],
             SnipeTargets, watchers, watch_fails, send_fails, clock)

\* The buyers named in a watcher list.
Watching(watchers) == {watchers[k] : k \in 1..Len(watchers)} \ {NoBuyer}

ScanAndSnipe(watchers, watch_fails, send_fails, kind) ==
    \* Only the calls the run makes can raise.
    /\ watch_fails \subseteq SnipeTargets
    /\ \A l \in DOMAIN listings :
          l \in watch_fails \/ l \notin SnipeTargets => watchers[l] = <<>>
    /\ send_fails \subseteq UNION {Watching(watchers[l]) : l \in DOMAIN listings}
    /\ LET res == scan_and_snipe(watchers, watch_fails, send_fails)
       IN  /\ KindFits(kind, res.errors > 0)
           /\ offerRecords' = res.records
           /\ sentOffers' = res.sent
           /\ last' = [Call("scan_and_snipe", None, res.errors = 0)
                         EXCEPT !.kind = kind,
                                !.detail =
                            [watching |-> [l \in DOMAIN listings |-> Watching(watchers[l])],
                             offers_sent |-> res.offers_sent,
                             errors |-> res.errors]]
    /\ UNCHANGED <<listings, entries, gwOffers, gwInventory, nextOfferId,
                   clock, campaigns, gwCampaigns, steps, sessions, batch_size, surge,
                   monotonic, limiter, tokens, requests>>

\* Buyer offers answered so far: the OfferRecords that are not outbound sends.
InboundCount == Len(offerRecords) - Len(sentOffers)

\* accept / counter / reject by the ratio of the offer to the current price.
IncomingAction(offer_amount, current_price) ==
    Strict(LAMBDA ratio :
               IF FloatGeq(ratio, FloatOf(AutoAcceptPercent)) THEN ACCEPT
               ELSE IF FloatGeq(ratio, FloatOf(CounterThresholdPercent)) THEN COUNTER
               ELSE REJECT,
           FloatDiv(FloatOf(offer_amount), FloatOf(current_price)))

\* The action for every price a listing has and every amount a buyer offers.
IncomingActions ==
    [current_price \in InboundPrices |->
        [offer_amount \in InboundAmounts \cup ThresholdAmounts |->
            IncomingAction(offer_amount, current_price)]]

HandleIncomingOffer(l, buyer_id, offer_amount, respond_ok) ==
    LET listing == listings[l]
        current_price == PriceOf(listing)
        action == IncomingActions[current_price][offer_amount]
        counter_amount == IF action = COUNTER
                          THEN RoundDiv(current_price * CounterPercent, 100)
                          ELSE None
        record == [listing_id |-> l,
                   buyer_id |-> buyer_id,
                   offer_price |-> offer_amount,
                   discount_bp |->
                       RoundDiv((current_price - offer_amount) * 10000, current_price),
                   sent_at |-> clock,
                   status |-> IF action = ACCEPT THEN ACCEPTED ELSE SENT]
    IN  /\ InboundCount < MaxInbound
        /\ offerRecords' = IF respond_ok THEN Append(offerRecords, record)
                           ELSE offerRecords
        /\ last' = [Call("handle_incoming_offer", l, respond_ok)
                      EXCEPT !.failed = IF respond_ok THEN "" ELSE "respond_to_offer",
                             !.detail = [action |-> action,
                                         counter_amount |-> counter_amount,
                                         offer_amount |-> offer_amount,
                                         calls |-> <<[action |-> action,
                                                      counter_amount |-> counter_amount]>>]]
        /\ UNCHANGED <<listings, entries, gwOffers, gwInventory, nextOfferId,
                       clock, sentOffers, campaigns, gwCampaigns, steps, sessions, batch_size, surge,
                       monotonic, limiter, tokens, requests>>

\* Time passes between calls.
Tick(d) ==
    /\ clock + d <= MaxClock
    /\ clock' = clock + d
    /\ last' = Call("tick", None, TRUE)
    /\ UNCHANGED <<listings, entries, gwOffers, gwInventory, nextOfferId,
                   offerRecords, sentOffers, campaigns, gwCampaigns, steps, sessions, batch_size, surge,
                   monotonic, limiter, tokens, requests>>

\* ---------------------------------------------------------------- Kickstarter
\* Seeded fault: the duplicate check finds nothing.
ExistingActive_none(cs, listing_id) == {}

\* The rows the duplicate check selects.
ExistingActive(cs, listing_id) ==
    {i \in 1..Len(cs) : cs[i].listing_id = listing_id /\ cs[i].status = ACTIVE}

PromoteOutcomes == {"ok", "create_campaign"}

\* Why promote_new_listing refuses, or "" when it goes on to the gateway.
PromoteRefusal(l) ==
    IF listings[l].status # ACTIVE THEN "not active"
    ELSE IF ExistingActive(campaigns, l) # {} THEN "Active campaign already exists"
    ELSE ""

PromoteNewListing(l, outcome) ==
    LET refusal == PromoteRefusal(l)
        created == refusal = "" /\ outcome = "ok"
        ebay_campaign_id == Len(gwCampaigns) + 1
        campaign == [listing_id |-> l,
                     ebay_campaign_id |-> ebay_campaign_id,
                     ad_rate_percent |-> KickstarterAdRate,
                     started_at |-> clock,
                     ends_at |-> clock + 24 * KickstarterDurationDays,
                     status |-> ACTIVE]
    IN  /\ refusal # "" => outcome = "ok"
        /\ created => Len(campaigns) < MaxCampaigns
        /\ gwCampaigns' = IF created THEN Append(gwCampaigns, "RUNNING") ELSE gwCampaigns
        /\ campaigns' = IF created THEN Append(campaigns, campaign) ELSE campaigns
        /\ listings' = IF created
                       THEN [listings EXCEPT ![l].ad_rate_percent = KickstarterAdRate]
                       ELSE listings
        /\ last' = [Call("promote_new_listing", l, created)
                      EXCEPT !.failed = IF refusal = "" /\ outcome # "ok" THEN outcome ELSE "",
                             !.detail = [error |-> refusal,
                                         gateway_calls |-> IF refusal = ""
                                                           THEN <<"create_campaign">>
                                                           ELSE <<>>]]
        /\ UNCHANGED <<entries, gwOffers, gwInventory, nextOfferId,
                       clock, offerRecords, sentOffers, steps, sessions, batch_size, surge,
                       monotonic, limiter, tokens, requests>>

\* Seeded fault: ends_at is not looked at.
Expired_all(cs, now) == {i \in 1..Len(cs) : cs[i].status = ACTIVE}

Expired(cs, now) ==
    {i \in 1..Len(cs) : cs[i].status = ACTIVE /\ cs[i].ends_at <= now}

\* cleanup_expired; end_fails: the campaigns whose end_campaign call raises.
CleanupExpired(end_fails, kind) ==
    LET expired == Expired(campaigns, clock)
        ended == expired \ end_fails
    IN  /\ end_fails \subseteq expired
        /\ KindFits(kind, end_fails # {})
        /\ campaigns' = [i \in 1..Len(campaigns) |->
                            IF i \in ended THEN [campaigns[i] EXCEPT !.status = ENDED]
                            ELSE campaigns[i]]
        /\ gwCampaigns' = [k \in 1..Len(gwCampaigns) |->
                              IF \E i \in ended : campaigns[i].ebay_campaign_id = k
                              THEN "ENDED" ELSE gwCampaigns[k]]
        /\ listings' = [l \in DOMAIN listings |->
                           IF \E i \in ended : campaigns[i].listing_id = l
                           THEN [listings[l] EXCEPT !.ad_rate_percent = 0]
                           ELSE listings[l]]
        /\ last' = [Call("cleanup_expired", None, end_fails = {})
                      EXCEPT !.kind = kind,
                             !.detail = [expired_found |-> Cardinality(expired),
                                         ended |-> Cardinality(ended),
                                         errors |-> Cardinality(end_fails)]]
        /\ UNCHANGED <<entries, gwOffers, gwInventory, nextOfferId,
                       clock, offerRecords, sentOffers, steps, sessions, batch_size, surge,
                       monotonic, limiter, tokens, requests>>

\* promote_new_listing run by several callers at once, each under its own
\* get_db session.  A call is suspended at each await: db.get, the select
\* for an active campaign, create_campaign, flush, and the commit on return.
\* A session reads committed rows; what it flushed is seen by the others
\* once it has committed.
Idle == [pc |-> "idle", listing_id |-> None, started_at |-> 0,
         ebay_campaign_id |-> None, row |-> None, offer_id |-> None,
         todo |-> {}, watchers |-> <<>>, pending |-> <<>>, errors |-> 0]

NoSessions == [c \in Callers |-> Idle]

\* db.get(Listing, listing_id) and the status test.
PromoteGet(c, l) ==
    /\ sessions[c].pc = "idle"
    /\ IF listings[l].status # ACTIVE
       THEN /\ sessions' = sessions
            /\ last' = [Call("promote_new_listing", l, FALSE)
                          EXCEPT !.detail = [error |-> "not active", caller |-> c]]
       ELSE /\ sessions' = [sessions EXCEPT ![c] = [Idle EXCEPT !.pc = "select",
                                                                !.listing_id = l]]
            /\ last' = last
    /\ UNCHANGED <<listings, entries, gwOffers, gwInventory, nextOfferId, clock,
                   offerRecords, sentOffers, campaigns, gwCampaigns, steps, batch_size, surge,
                   monotonic, limiter, tokens, requests>>

\* The select for an active campaign of the listing returns; without one the
\* call takes now and goes into create_campaign.
PromoteSelect(c) ==
    LET l == sessions[c].listing_id
    IN  /\ sessions[c].pc = "select"
        /\ IF ExistingActive(campaigns, l) # {}
           THEN /\ sessions' = [sessions EXCEPT ![c] = Idle]
                /\ last' = [Call("promote_new_listing", l, FALSE)
                              EXCEPT !.detail = [error |-> "Active campaign already exists",
                                                 caller |-> c]]
           ELSE /\ sessions' = [sessions EXCEPT ![c].pc = "create_campaign",
                                                ![c].started_at = clock]
                /\ last' = last
        /\ UNCHANGED <<listings, entries, gwOffers, gwInventory, nextOfferId, clock,
                       offerRecords, sentOffers, campaigns, gwCampaigns, steps, batch_size, surge,
                       monotonic, limiter, tokens, requests>>

\* create_campaign returns or raises.
PromoteCreate(c, outcome) ==
    LET l == sessions[c].listing_id
    IN  /\ sessions[c].pc = "create_campaign"
        /\ IF outcome = "ok"
           THEN /\ Len(gwCampaigns) < MaxCampaigns
                /\ gwCampaigns' = Append(gwCampaigns, "RUNNING")
                /\ sessions' = [sessions EXCEPT
                                   ![c].pc = "flush",
                                   ![c].ebay_campaign_id = Len(gwCampaigns) + 1]
                /\ last' = last
           ELSE /\ gwCampaigns' = gwCampaigns
                /\ sessions' = [sessions EXCEPT ![c] = Idle]
                /\ last' = [Call("promote_new_listing", l, FALSE)
                              EXCEPT !.failed = outcome,
                                     !.detail = [error |-> "", caller |-> c]]
        /\ UNCHANGED <<listings, entries, gwOffers, gwInventory, nextOfferId, clock,
                       offerRecords, sentOffers, campaigns, steps, batch_size, surge,
                       monotonic, limiter, tokens, requests>>

\* db.add(campaign), the ad rate assignment and flush: written inside the
\* caller's transaction.
PromoteFlush(c) ==
    /\ sessions[c].pc = "flush"
    /\ sessions' = [sessions EXCEPT ![c].pc = "commit"]
    /\ UNCHANGED <<listings, entries, gwOffers, gwInventory, nextOfferId, clock,
                   offerRecords, sentOffers, campaigns, gwCampaigns, steps, batch_size, surge,
                   monotonic, limiter, tokens, requests, last>>

\* The call returns and get_db commits the Campaign row and the ad rate.
PromoteCommit(c) ==
    LET l == sessions[c].listing_id
        campaign == [listing_id |-> l,
                     ebay_campaign_id |-> sessions[c].ebay_campaign_id,
                     ad_rate_percent |-> KickstarterAdRate,
                     started_at |-> sessions[c].started_at,
                     ends_at |-> sessions[c].started_at + 24 * KickstarterDurationDays,
                     status |-> ACTIVE]
    IN  /\ sessions[c].pc = "commit"
        /\ campaigns' = Append(campaigns, campaign)
        /\ listings' = [listings EXCEPT ![l].ad_rate_percent = KickstarterAdRate]
        /\ sessions' = [sessions EXCEPT ![c] = Idle]
        /\ last' = [Call("promote_new_listing", l, TRUE)
                      EXCEPT !.detail = [error |-> "", caller |-> c]]
        /\ UNCHANGED <<entries, gwOffers, gwInventory, nextOfferId, clock,
                       offerRecords, sentOffers, gwCampaigns, steps, batch_size, surge,
                       monotonic, limiter, tokens, requests>>

\* Resurrector.resurrect run by several callers at once, each under its own
\* get_db session.  The session keeps the Listing object db.get loaded; the
\* pipeline reads that object at every step, whatever has been committed
\* since.  The call is suspended at db.get, withdraw_offer, the sleep,
\* create_inventory_item, create_offer, publish_offer and the flush.
StepOutcomes == {"ok", "raise"}

\* The caller's call ends without a row change (_fail, and the commit of an
\* unchanged session).
ResurrectFailed(c, failed) ==
    /\ sessions' = [sessions EXCEPT ![c] = Idle]
    /\ last' = [Call("resurrect", sessions[c].listing_id, FALSE)
                  EXCEPT !.failed = failed,
                         !.detail = [caller |-> c]]

ResurrectGet(c, l) ==
    /\ sessions[c].pc = "idle"
    /\ sessions' = [sessions EXCEPT ![c] = [Idle EXCEPT !.pc = "withdraw_offer",
                                                       !.listing_id = l,
                                                       !.row = listings[l]]]
    /\ UNCHANGED <<listings, entries, gwOffers, gwInventory, nextOfferId, clock,
                   offerRecords, sentOffers, campaigns, gwCampaigns, steps, batch_size, surge,
                   monotonic, limiter, tokens, requests, last>>

\* Step 1: withdraw_offer on the offer the loaded row names, if any.
ResurrectWithdraw(c, outcome) ==
    LET old_offer_id == sessions[c].row.offer_id
    IN  /\ sessions[c].pc = "withdraw_offer"
        /\ old_offer_id = None => outcome = "ok"
        /\ IF outcome = "ok"
           THEN /\ gwOffers' = IF old_offer_id # None
                               THEN [gwOffers EXCEPT ![old_offer_id] = "WITHDRAWN"]
                               ELSE gwOffers
                /\ sessions' = [sessions EXCEPT ![c].pc =
                                   IF ResurrectionDelaySeconds > 0 THEN "sleep"
                                   ELSE "create_inventory_item"]
                /\ last' = last
           ELSE /\ gwOffers' = gwOffers
                /\ ResurrectFailed(c, "withdraw_offer")
        /\ UNCHANGED <<listings, entries, gwInventory, nextOfferId, clock,
                       offerRecords, sentOffers, campaigns, gwCampaigns, steps, batch_size, surge,
                       monotonic, limiter, tokens, requests>>

\* Step 2: the cooldown is over.
ResurrectSleep(c) ==
    /\ sessions[c].pc = "sleep"
    /\ sessions' = [sessions EXCEPT ![c].pc = "create_inventory_item"]
    /\ UNCHANGED <<listings, entries, gwOffers, gwInventory, nextOfferId, clock,
                   offerRecords, sentOffers, campaigns, gwCampaigns, steps, batch_size, surge,
                   monotonic, limiter, tokens, requests, last>>

\* Step 4: create_inventory_item under the new SKU.
ResurrectCreateItem(c, outcome) ==
    LET row == sessions[c].row
        new_sku == _generate_resurrection_sku(row.sku, row.zombie_cycle_count + 1)
    IN  /\ sessions[c].pc = "create_inventory_item"
        /\ IF outcome = "ok"
           THEN /\ gwInventory' = [gwInventory EXCEPT ![new_sku] = row.list_price]
                /\ sessions' = [sessions EXCEPT ![c].pc = "create_offer"]
                /\ last' = last
           ELSE /\ gwInventory' = gwInventory
                /\ ResurrectFailed(c, "create_inventory_item")
        /\ UNCHANGED <<listings, entries, gwOffers, nextOfferId, clock,
                       offerRecords, sentOffers, campaigns, gwCampaigns, steps, batch_size, surge,
                       monotonic, limiter, tokens, requests>>

\* Step 5, first half: create_offer.
ResurrectCreateOffer(c, outcome) ==
    /\ sessions[c].pc = "create_offer"
    /\ IF outcome = "ok"
       THEN /\ nextOfferId <= MaxIds
            /\ gwOffers' = [gwOffers EXCEPT ![nextOfferId] = "CREATED"]
            /\ nextOfferId' = nextOfferId + 1
            /\ sessions' = [sessions EXCEPT ![c].pc = "publish_offer",
                                            ![c].offer_id = nextOfferId]
            /\ last' = last
       ELSE /\ UNCHANGED <<gwOffers, nextOfferId>>
            /\ ResurrectFailed(c, "create_offer")
    /\ UNCHANGED <<listings, entries, gwInventory, clock,
                   offerRecords, sentOffers, campaigns, gwCampaigns, steps, batch_size, surge,
                   monotonic, limiter, tokens, requests>>

\* Step 5, second half: publish_offer.
ResurrectPublish(c, outcome) ==
    /\ sessions[c].pc = "publish_offer"
    /\ IF outcome = "ok"
       THEN /\ gwOffers' = [gwOffers EXCEPT ![sessions[c].offer_id] = "PUBLISHED"]
            /\ sessions' = [sessions EXCEPT ![c].pc = "flush"]
            /\ last' = last
       ELSE /\ gwOffers' = gwOffers
            /\ ResurrectFailed(c, "publish_offer")
    /\ UNCHANGED <<listings, entries, gwInventory, nextOfferId, clock,
                   offerRecords, sentOffers, campaigns, gwCampaigns, steps, batch_size, surge,
                   monotonic, limiter, tokens, requests>>

\* The UPDATE a flush emits sets the columns whose value differs from the
\* loaded one, on the row as it is committed now.
FlushRow(committed, loaded, assigned) ==
    [f \in DOMAIN committed |->
        IF assigned[f] # loaded[f] THEN assigned[f] ELSE committed[f]]

\* listings.sku and listings.ebay_item_id are unique: another row holds the
\* value the flush writes.
UniqueViolated(rows, l, row) ==
    \E other \in DOMAIN rows \ {l} :
        \/ rows[other].sku = row.sku
        \/ row.ebay_item_id # None /\ rows[other].ebay_item_id = row.ebay_item_id

\* Step 6, the flush and the commit on return.  The flushed UPDATE holds the
\* row until the commit, and another session's flush of the row waits for
\* it: the two are one step.
ResurrectCommit(c) ==
    LET l == sessions[c].listing_id
        loaded == sessions[c].row
        cycle == loaded.zombie_cycle_count + 1
        offer_id == sessions[c].offer_id
        new_item_id == publish_offer(offer_id)
        assigned == ResurrectUpdate(loaded,
                                    _generate_resurrection_sku(loaded.sku, cycle),
                                    new_item_id, offer_id, cycle,
                                    _rotate_photos(loaded.photo_urls))
        flushed == FlushRow(listings[l], loaded, assigned)
        raised == UniqueViolated(listings, l, flushed)
    IN  /\ sessions[c].pc = "flush"
        /\ listings' = IF raised THEN listings ELSE [listings EXCEPT ![l] = flushed]
        /\ sessions' = [sessions EXCEPT ![c] = Idle]
        /\ last' = [Call("resurrect", l, ~raised)
                      EXCEPT !.failed = IF raised THEN "flush" ELSE "",
                             !.raised = raised,
                             !.records =
                                 IF raised THEN <<>>
                                 ELSE <<ResurrectRecord(assigned, loaded.ebay_item_id,
                                                        new_item_id, cycle)>>,
                             !.cycle_writes =
                                 <<<<l, listings[l].zombie_cycle_count,
                                     flushed.zombie_cycle_count>>>>,
                             !.detail = [caller |-> c,
                                         old_offer_id |-> loaded.offer_id,
                                         replaced_offer_id |-> listings[l].offer_id]]
        /\ UNCHANGED <<entries, gwOffers, gwInventory, nextOfferId, clock,
                       offerRecords, sentOffers, campaigns, gwCampaigns, steps, batch_size, surge,
                       monotonic, limiter, tokens, requests>>

\* SmartQueue.release_batch run by several callers at once, each under its
\* own get_db session.  A run is suspended at the select of the pending
\* entries, at the gateway calls of each entry and at the flush; its row
\* changes reach the other sessions when it commits.
RunBatchId(c, es) == 10 * c + NewBatchId(es)

ReleaseSelect(c) ==
    /\ sessions[c].pc = "idle"
    /\ \E batch \in {SelectBatch(entries, batch_size)} :
          sessions' = [sessions EXCEPT
                          ![c] = [Idle EXCEPT
                                    !.pc = IF batch = {} THEN "flush" ELSE "create_offer",
                                    !.todo = batch,
                                    !.row = RunBatchId(c, entries)]]
    /\ UNCHANGED <<listings, entries, gwOffers, gwInventory, nextOfferId, clock,
                   offerRecords, sentOffers, campaigns, gwCampaigns, steps, batch_size, surge,
                   monotonic, limiter, tokens, requests, last>>

\* create_offer and publish_offer for the next entry of the run's batch, and
\* the row changes the run makes in its session.
ReleasePublish(c, outcome) ==
    LET todo == sessions[c].todo
        i == CHOOSE x \in todo : \A y \in todo \ {x} : Before(entries, x, y)
        offer_id == nextOfferId
        write == [entry |-> i,
                  listing_id |-> entries[i].listing_id,
                  status |-> IF outcome = "ok" THEN RELEASED ELSE FAILED,
                  error_message |-> IF outcome = "ok" THEN "" ELSE outcome,
                  offer_id |-> offer_id]
    IN  /\ sessions[c].pc = "create_offer"
        /\ outcome # "create_offer" => nextOfferId <= MaxIds
        /\ gwOffers' = IF outcome = "create_offer" THEN gwOffers
                       ELSE [gwOffers EXCEPT ![offer_id] =
                                IF outcome = "ok" THEN "PUBLISHED" ELSE "CREATED"]
        /\ nextOfferId' = IF outcome = "create_offer" THEN nextOfferId ELSE nextOfferId + 1
        /\ sessions' = [sessions EXCEPT
                           ![c].pc = IF todo = {i} THEN "flush" ELSE "create_offer",
                           ![c].todo = todo \ {i},
                           ![c].pending = Append(@, write)]
        /\ UNCHANGED <<listings, entries, gwInventory, clock, offerRecords, sentOffers,
                       campaigns, gwCampaigns, steps, batch_size, surge,
                       monotonic, limiter, tokens, requests, last>>

\* The last row change of a run for which Test holds, or None.
LastWrite(writes, Test(_)) ==
    LET hits == {k \in 1..Len(writes) : Test(writes[k])}
    IN  IF hits = {} THEN None
        ELSE CHOOSE k \in hits : \A h \in hits : h <= k

\* The flush, the return and the commit of the run's row changes.
ReleaseCommit(c) ==
    LET writes == sessions[c].pending
        released == {writes[k].entry : k \in {k \in 1..Len(writes) :
                                                 writes[k].status = RELEASED}}
    IN  /\ sessions[c].pc = "flush"
        /\ entries' = [i \in 1..Len(entries) |->
                          LET k == LastWrite(writes, LAMBDA w : w.entry = i)
                          IN  IF k = None THEN entries[i]
                              ELSE [entries[i] EXCEPT
                                      !.status = writes[k].status,
                                      !.error_message = writes[k].error_message,
                                      !.batch_id = IF writes[k].status = RELEASED
                                                   THEN sessions[c].row ELSE @]]
        /\ listings' = [l \in DOMAIN listings |->
                           LET k == LastWrite(writes, LAMBDA w : w.listing_id = l
                                                                /\ w.status = RELEASED)
                           IN  IF k = None THEN listings[l]
                               ELSE [listings[l] EXCEPT
                                       !.ebay_item_id = publish_offer(writes[k].offer_id),
                                       !.offer_id = writes[k].offer_id,
                                       !.status = ACTIVE,
                                       !.days_active = 0]]
        /\ sessions' = [sessions EXCEPT ![c] = Idle]
        /\ last' = [Call("release_batch", None, Cardinality(released) = Len(writes))
                      EXCEPT !.detail =
                                 [caller |-> c,
                                  selected |-> {writes[k].entry : k \in 1..Len(writes)},
                                  released |-> released,
                                  offers |-> [k \in 1..Len(writes) |->
                                                <<writes[k].listing_id, writes[k].status>>]]]
        /\ UNCHANGED <<gwOffers, gwInventory, nextOfferId, clock, offerRecords, sentOffers,
                       campaigns, gwCampaigns, steps, batch_size, surge,
                       monotonic, limiter, tokens, requests>>

\* OfferSniper.scan_and_snipe run by several callers at once, each under its
\* own get_db session.  The run is suspended at the select of the listings,
\* at get_watchers, at the select of _was_offer_sent_recently, at
\* send_offer_to_buyer and at the flush.  The cooldown select sees the
\* committed OfferRecords and those the caller's own session has added.
SnipePc(todo, watchers) ==
    IF watchers # <<>> THEN "check"
    ELSE IF todo # {} THEN "get_watchers"
    ELSE "flush"

SnipeSelect(c) ==
    /\ sessions[c].pc = "idle"
    /\ sessions' = [sessions EXCEPT ![c] = [Idle EXCEPT !.pc = SnipePc(SnipeTargets, <<>>),
                                                       !.todo = SnipeTargets]]
    /\ UNCHANGED <<listings, entries, gwOffers, gwInventory, nextOfferId, clock,
                   offerRecords, sentOffers, campaigns, gwCampaigns, steps, batch_size, surge,
                   monotonic, limiter, tokens, requests, last>>

\* get_watchers for the next listing returns a list or raises.
SnipeGetWatchers(c, watchers, outcome) ==
    LET todo == sessions[c].todo
        l == CHOOSE x \in todo : \A y \in todo : x <= y
    IN  /\ sessions[c].pc = "get_watchers"
        /\ outcome = "raise" => watchers = <<>>
        /\ sessions' = [sessions EXCEPT
                           ![c].pc = SnipePc(todo \ {l}, watchers),
                           ![c].todo = todo \ {l},
                           ![c].listing_id = l,
                           ![c].watchers = watchers,
                           ![c].errors = IF outcome = "raise" THEN @ + 1 ELSE @]
        /\ UNCHANGED <<listings, entries, gwOffers, gwInventory, nextOfferId, clock,
                       offerRecords, sentOffers, campaigns, gwCampaigns, steps, batch_size, surge,
                       monotonic, limiter, tokens, requests, last>>

\* The cooldown check for the next watcher.
SnipeCheck(c) ==
    LET buyer_id == Head(sessions[c].watchers)
        skip == \/ buyer_id = NoBuyer
                \/ _was_offer_sent_recently(offerRecords \o sessions[c].pending,
                                            sessions[c].listing_id, buyer_id, clock)
    IN  /\ sessions[c].pc = "check"
        /\ sessions' = [sessions EXCEPT
                           ![c].pc = IF skip
                                     THEN SnipePc(sessions[c].todo, Tail(sessions[c].watchers))
                                     ELSE "send_offer_to_buyer",
                           ![c].watchers = IF skip THEN Tail(@) ELSE @]
        /\ UNCHANGED <<listings, entries, gwOffers, gwInventory, nextOfferId, clock,
                       offerRecords, sentOffers, campaigns, gwCampaigns, steps, batch_size, surge,
                       monotonic, limiter, tokens, requests, last>>

\* send_offer_to_buyer returns, and the OfferRecord is added to the session,
\* or raises.
SnipeSend(c, outcome) ==
    LET listing == listings[sessions[c].listing_id]
        buyer_id == Head(sessions[c].watchers)
        tiers == _parse_tiers(OfferTiers)
        record == [listing_id |-> listing.id,
                   buyer_id |-> buyer_id,
                   offer_price |-> calculate_offer_price(tiers, PriceOf(listing),
                                                         listing.days_active),
                   discount_bp |-> 100 * get_discount_percent(tiers, listing.days_active),
                   sent_at |-> clock,
                   status |-> SENT]
    IN  /\ sessions[c].pc = "send_offer_to_buyer"
        /\ sentOffers' = IF outcome = "ok"
                         THEN Append(sentOffers, <<listing.id, buyer_id, clock>>)
                         ELSE sentOffers
        /\ sessions' = [sessions EXCEPT
                           ![c].pc = SnipePc(sessions[c].todo, Tail(sessions[c].watchers)),
                           ![c].watchers = Tail(@),
                           ![c].pending = IF outcome = "ok" THEN Append(@, record) ELSE @,
                           ![c].errors = IF outcome = "ok" THEN @ ELSE @ + 1]
        /\ UNCHANGED <<listings, entries, gwOffers, gwInventory, nextOfferId, clock,
                       offerRecords, campaigns, gwCampaigns, steps, batch_size, surge,
                       monotonic, limiter, tokens, requests, last>>

\* The flush, the return and the commit of the added OfferRecords.
SnipeCommit(c) ==
    /\ sessions[c].pc = "flush"
    /\ offerRecords' = offerRecords \o sessions[c].pending
    /\ sessions' = [sessions EXCEPT ![c] = Idle]
    /\ last' = [Call("scan_and_snipe", None, sessions[c].errors = 0)
                  EXCEPT !.detail = [caller |-> c,
                                     offers_sent |-> Len(sessions[c].pending),
                                     errors |-> sessions[c].errors]]
    /\ UNCHANGED <<listings, entries, gwOffers, gwInventory, nextOfferId, clock,
                   sentOffers, campaigns, gwCampaigns, steps, batch_size, surge,
                   monotonic, limiter, tokens, requests>>

\* Days pass between calls.
TickDays(n) ==
    /\ clock + 24 * n <= 24 * MaxDays
    /\ clock' = clock + 24 * n
    /\ last' = Call("tick", None, TRUE)
    /\ UNCHANGED <<listings, entries, gwOffers, gwInventory, nextOfferId,
                   offerRecords, sentOffers, campaigns, gwCampaigns, steps, sessions, batch_size, surge,
                   monotonic, limiter, tokens, requests>>

\* ------------------------------------------------------------------ Repricer
\* The index of the step for days_active (0: no step applies yet).
_get_step(ladder, days_active) ==
    LET hit == {i \in 1..Len(ladder) : days_active >= ladder[i][1]}
    IN  IF hit = {} THEN 0 ELSE CHOOSE i \in hit : \A j \in hit : j <= i

\* ProfitFloorCalc.find_minimum_price as the fraction num / den of cents;
\* den = 0 stands for +infinity.
find_minimum_price(purchase_price, shipping, ad_rate_percent) ==
    LET fee_multiplier == 10000 - BaseFeeBp - ad_rate_percent - PaymentProcessingBp
        numerator == MinProfitFloorCents + purchase_price + shipping + PerOrderFeeCents
    IN  IF fee_multiplier <= 0 THEN [num |-> 1, den |-> 0]
        ELSE [num |-> numerator * 10000, den |-> fee_multiplier]

\* round(min_price, 2); the ad rates of the model keep min_price finite.
Infinity == "inf"
RoundedMin(min_price) ==
    IF min_price.den = 0 THEN Infinity ELSE RoundDiv(min_price.num, min_price.den)

\* Seeded fault: the profit floor is not enforced.
EnforceFloor_off(new_price, min_price) == new_price

\* if new_price < min_price: new_price = round(min_price, 2)
EnforceFloor(new_price, min_price) ==
    IF min_price.den = 0 \/ new_price * min_price.den < min_price.num
    THEN RoundedMin(min_price)
    ELSE new_price

\* Seeded fault: the markdown is taken off the current price.
StepPrice_compound(listing, pct) ==
    EnforceFloor(RoundDiv(PriceOf(listing) * (100 - pct), 100),
                 find_minimum_price(listing.purchase_price, listing.shipping_cost,
                                    listing.ad_rate_percent))

\* The price calculate_reprice arrives at for the step with percent pct.
StepPrice(listing, pct) ==
    EnforceFloor(RoundDiv(listing.list_price * (100 - pct), 100),
                 find_minimum_price(listing.purchase_price, listing.shipping_cost,
                                    listing.ad_rate_percent))

\* The result when no step applies or the price would not change.
NoReprice == [step |-> 0, new_price |-> None]

calculate_reprice(ladder, listing) ==
    LET step == _get_step(ladder, listing.days_active)
        new_price == StepPrice(listing, ladder[step][2])
    IN  IF step = 0 THEN NoReprice
        ELSE IF new_price = PriceOf(listing) THEN NoReprice
        ELSE [step |-> step, new_price |-> new_price]

\* The listings a scan reprices.
Repriced(ladder) ==
    {l \in DOMAIN listings :
        listings[l].status = ACTIVE /\ calculate_reprice(ladder, listings[l]) # NoReprice}

\* Seeded fault: the row assignment leaves last_repriced_at as it was.
ApplyReprice_nostamp(listing, new_price, now) ==
    [listing EXCEPT !.current_price = new_price]

\* The two assignments scan_and_reprice makes to a repriced row.
ApplyReprice(listing, new_price, now) ==
    [listing EXCEPT !.current_price = new_price,
                    !.last_repriced_at = now]

\* The listings of a set in the order the scan's query returns them.
RECURSIVE InOrder(_)
InOrder(ls) ==
    IF ls = {} THEN <<>>
    ELSE LET l == CHOOSE x \in ls : \A y \in ls : x <= y
         IN  <<l>> \o InOrder(ls \ {l})

\* What a scan does, in order: one row assignment per repriced listing, then
\* the bulk push when updates were staged.
RepriceTrace(repriced) ==
    [k \in 1..Cardinality(repriced) |-> <<"set_price", InOrder(repriced)[k]>>]
       \o (IF repriced = {} THEN <<>> ELSE <<<<"bulk_update_price_quantity", None>>>>)

\* scan_and_reprice: the rows are changed first, then one bulk push is made;
\* a push that raises is counted and the rows stay changed.
RepricerRun(op, push_ok, kind) ==
    LET repriced == Repriced(steps)
        ebay_updates == {[sku |-> listings[l].sku,
                          price |-> calculate_reprice(steps, listings[l]).new_price] :
                            l \in repriced}
    IN  /\ ebay_updates = {} => push_ok
        /\ KindFits(kind, ~push_ok)
        /\ listings' = [l \in DOMAIN listings |->
                           IF l \in repriced
                           THEN ApplyReprice(listings[l],
                                             calculate_reprice(steps, listings[l]).new_price,
                                             clock)
                           ELSE listings[l]]
        /\ gwInventory' = IF push_ok
                          THEN bulk_update_price_quantity(gwInventory, ebay_updates)
                          ELSE gwInventory
        /\ last' = [Call(op, None, push_ok)
                      EXCEPT !.failed = IF push_ok THEN "" ELSE "bulk_update_price_quantity",
                             !.kind = kind,
                             !.detail = [repriced |-> repriced,
                                         pushed |-> repriced,
                                         trace |-> RepriceTrace(repriced),
                                         ebay_errors |-> IF push_ok THEN 0
                                                         ELSE Cardinality(ebay_updates)]]
        /\ UNCHANGED <<entries, gwOffers, nextOfferId,
                       clock, offerRecords, sentOffers, campaigns, gwCampaigns, steps, sessions, batch_size, surge,
                       monotonic, limiter, tokens, requests>>

\* POST /repricer/run.
ScanAndReprice(push_ok, kind) == RepricerRun("scan_and_reprice", push_ok, kind)

\* GET /repricer/preview: the handler runs scan_and_reprice as well, and
\* get_db commits on return.
preview_repricing(push_ok, kind) == RepricerRun("preview_repricing", push_ok, kind)

\* AutoRelister.scan_for_relists: the listings due for a preventive relist.
ScanForRelists ==
    /\ last' = [Call("scan_for_relists", None, TRUE)
                  EXCEPT !.detail = {l \in DOMAIN listings :
                                        _is_due_for_relist(listings[l])}]
    /\ last' # last
    /\ UNCHANGED <<listings, entries, gwOffers, gwInventory, nextOfferId>>
    /\ UNCHANGED growthVars

\* -------------------------------------------------------------- PhotoShuffler
needs_shuffle(listing) ==
    /\ listing.status = ACTIVE
    /\ listing.days_active >= PhotoShuffleDaysNoViews
    /\ listing.total_views = 0
    /\ Len(listing.photo_urls) >= 2

\* The rows the scan's query selects.
ShuffleCandidates ==
    {l \in DOMAIN listings :
        /\ listings[l].status = ACTIVE
        /\ listings[l].days_active >= PhotoShuffleDaysNoViews
        /\ listings[l].total_views = 0}

\* scan_and_shuffle; update_fails: the listings whose update_inventory_item
\* call raises.  The row is assigned before the call, so a raising call
\* leaves the row shuffled and reports the listing as skipped.
ScanAndShuffle(update_fails) ==
    LET rotated == {l \in ShuffleCandidates : needs_shuffle(listings[l])}
        shuffled == rotated \ update_fails
    IN  /\ ShuffleCandidates # {}
        /\ update_fails \subseteq rotated
        /\ \A l \in rotated : gwInventory[listings[l].sku] = None => l \in update_fails
        /\ listings' = [l \in DOMAIN listings |->
                           IF l \in rotated
                           THEN [listings[l] EXCEPT
                                    !.photo_urls = _rotate_photos(listings[l].photo_urls)]
                           ELSE listings[l]]
        /\ last' = [Call("scan_and_shuffle", None, update_fails = {})
                      EXCEPT !.failed = IF update_fails = {} THEN ""
                                        ELSE "update_inventory_item",
                             !.detail = [candidates |-> ShuffleCandidates,
                                         shuffled |-> shuffled,
                                         skipped |-> ShuffleCandidates \ shuffled]]
        /\ UNCHANGED <<entries, gwOffers, gwInventory, nextOfferId>>
        /\ UNCHANGED growthVars

\* ------------------------------------------------------------ TitleSanitizer
\* A title, a brand, a model and a word are strings: sequences of characters.
LowerLetters == <<"a", "b", "c", "d", "e", "f", "g", "h", "i", "j", "k", "l", "m", "n", "o", "p", "q", "r", "s", "t", "u", "v", "w", "x", "y", "z">>
UpperLetters == <<"A", "B", "C", "D", "E", "F", "G", "H", "I", "J", "K", "L", "M", "N", "O", "P", "Q", "R", "S", "T", "U", "V", "W", "X", "Y", "Z">>

Letters == {LowerLetters[i] : i \in 1..26} \cup {UpperLetters[i] : i \in 1..26}

\* \w, \s and the character classes of the three patterns.
WordChars == Letters \cup {DigitChars[d] : d \in 1..10} \cup {"_"}
Whitespace == {" "}
_JUNK_CHARS == {"!", "*", "~", "@", "#", "$", "%", "^", "&"}
_SPECIAL_CHARS == WordChars \cup Whitespace \cup {"-", "&", "/", ".", ",", "'", "+", "(", ")", "#"}

_BANNED_WORDS ==
    {<<"l", "@", "@", "k">>, <<"l", "o", "o", "k", "!">>, <<"l", "o", "o", "k", "!", "!">>,
     <<"w", "o", "w">>, <<"w", "o", "w", "!">>, <<"m", "u", "s", "t", " ", "s", "e", "e">>,
     <<"a", "+", "+", "+">>, <<"a", "+", "+">>, <<"n", "r">>,
     <<"n", "o", " ", "r", "e", "s", "e", "r", "v", "e">>, <<"f", "r", "e", "e", " ", "s", "h", "i", "p", "p", "i", "n", "g">>, <<"f", "a", "s", "t", " ", "s", "h", "i", "p", "p", "i", "n", "g">>,
     <<"h", "o", "t">>, <<"s", "e", "x", "y">>, <<"r", "a", "r", "e", "!">>,
     <<"a", "m", "a", "z", "i", "n", "g">>, <<"i", "n", "c", "r", "e", "d", "i", "b", "l", "e">>, <<"a", "w", "e", "s", "o", "m", "e">>,
     <<"p", "e", "r", "f", "e", "c", "t">>, <<"b", "e", "a", "u", "t", "i", "f", "u", "l">>, <<"g", "o", "r", "g", "e", "o", "u", "s">>,
     <<"s", "t", "u", "n", "n", "i", "n", "g">>, <<"e", "x", "c", "e", "l", "l", "e", "n", "t", "!">>, <<"g", "r", "e", "a", "t", "!">>,
     <<"n", "i", "c", "e", "!">>, <<"c", "o", "o", "l", "!">>}

_KNOWN_ACRONYMS ==
    {<<"n", "i", "b">>, <<"n", "w", "t">>, <<"n", "w", "b">>, <<"n", "w", "o", "t">>, <<"e", "u", "c">>,
     <<"v", "g", "c">>, <<"g", "u", "c">>, <<"o", "e", "m">>, <<"o", "o", "b">>, <<"u", "s", "b">>,
     <<"h", "d", "m", "i">>, <<"l", "e", "d">>, <<"l", "c", "d">>, <<"d", "v", "d">>, <<"c", "d">>,
     <<"p", "c">>, <<"t", "v">>, <<"a", "c">>, <<"d", "c">>, <<"x", "l">>,
     <<"x", "x", "l">>, <<"x", "s">>, <<"s", "m">>, <<"m", "d">>, <<"l", "g">>,
     <<"o", "z">>, <<"m", "l">>, <<"g", "b">>, <<"t", "b">>, <<"m", "b">>,
     <<"h", "p">>, <<"p", "s">>, <<"h", "d">>, <<"s", "d">>, <<"r", "g", "b">>,
     <<"d", "d", "r">>, <<"s", "s", "d">>, <<"h", "d", "d">>, <<"r", "p", "m">>, <<"m", "p", "h">>,
     <<"n", "f", "l">>, <<"n", "b", "a">>, <<"m", "l", "b">>, <<"n", "h", "l">>, <<"u", "s", "a">>,
     <<"u", "k">>, <<"e", "u">>}

MAX_TITLE_LENGTH == 80

\* The characters of s at the positions of keep, in order.
Keep(s, keep) ==
    Strict(LAMBDA K :
             SubSeq([j \in 1..Cardinality(K) |->
                        s[CHOOSE i \in K : Cardinality({k \in K : k <= i}) = j]],
                    1, Cardinality(K)),
           keep)

char_lower(c) ==
    IF \E i \in 1..26 : UpperLetters[i] = c
    THEN LowerLetters[CHOOSE i \in 1..26 : UpperLetters[i] = c]
    ELSE c

char_upper(c) ==
    IF \E i \in 1..26 : LowerLetters[i] = c
    THEN UpperLetters[CHOOSE i \in 1..26 : LowerLetters[i] = c]
    ELSE c

\* str.lower(), str.upper(), str.capitalize(), str.isalpha().
str_lower(s) == SubSeq([i \in 1..Len(s) |-> char_lower(s[i])], 1, Len(s))
str_upper(s) == SubSeq([i \in 1..Len(s) |-> char_upper(s[i])], 1, Len(s))
capitalize(s) ==
    SubSeq([i \in 1..Len(s) |-> IF i = 1 THEN char_upper(s[i]) ELSE char_lower(s[i])],
           1, Len(s))
isalpha(s) == Len(s) > 0 /\ \A i \in 1..Len(s) : s[i] \in Letters

\* str.lstrip(chars), str.rstrip(chars), str.strip(chars).
lstrip(s, chars) ==
    IF \A i \in 1..Len(s) : s[i] \in chars THEN <<>>
    ELSE SubSeq(s, CHOOSE i \in 1..Len(s) :
                      s[i] \notin chars /\ \A k \in 1..(i - 1) : s[k] \in chars,
                Len(s))

rstrip(s, chars) ==
    IF \A i \in 1..Len(s) : s[i] \in chars THEN <<>>
    ELSE SubSeq(s, 1, CHOOSE i \in 1..Len(s) :
                         s[i] \notin chars /\ \A k \in (i + 1)..Len(s) : s[k] \in chars)

strip(s, chars) == lstrip(rstrip(s, chars), chars)

\* _MULTI_SPACES.sub(" ", s): a run of two or more whitespace characters
\* becomes one space.
collapse_spaces(s) ==
    Keep(s, {i \in 1..Len(s) : ~(s[i] \in Whitespace /\ i > 1 /\ s[i - 1] \in Whitespace)})

\* str.split(): the maximal runs of non-whitespace characters, in order.
split(s) ==
    LET starts == {i \in 1..Len(s) :
                      s[i] \notin Whitespace /\ (i = 1 \/ s[i - 1] \in Whitespace)}
        end(i) == CHOOSE j \in i..Len(s) :
                      /\ \A k \in i..j : s[k] \notin Whitespace
                      /\ (j = Len(s) \/ s[j + 1] \in Whitespace)
    IN  Strict(LAMBDA S :
                 SubSeq([j \in 1..Cardinality(S) |->
                            LET i == CHOOSE i \in S : Cardinality({k \in S : k <= i}) = j
                            IN  SubSeq(s, i, end(i))],
                        1, Cardinality(S)),
               starts)

\* " ".join(words).
RECURSIVE join(_)
join(words) ==
    IF words = <<>> THEN <<>>
    ELSE IF Len(words) = 1 THEN words[1]
    ELSE words[1] \o <<" ">> \o join(Tail(words))

\* pattern.sub("", s) for the pattern re.escape(pat) with re.IGNORECASE: the
\* occurrences of pat from position i on, leftmost first and not overlapping,
\* are removed.
RECURSIVE sub_pattern(_, _, _)
sub_pattern(s, pat, i) ==
    IF i > Len(s) THEN <<>>
    ELSE IF i + Len(pat) - 1 <= Len(s)
              /\ str_lower(SubSeq(s, i, i + Len(pat) - 1)) = str_lower(pat)
         THEN sub_pattern(s, pat, i + Len(pat))
         ELSE <<s[i]>> \o sub_pattern(s, pat, i + 1)

\* needle in haystack.
Contains(haystack, needle) ==
    \E i \in 1..(Len(haystack) - Len(needle) + 1) :
        SubSeq(haystack, i, i + Len(needle) - 1) = needle

_strip_junk(title) ==
    Strict(LAMBDA t :
             strip(collapse_spaces(
                     SelectSeq(Keep(t, {i \in 1..Len(t) :
                                          ~(/\ t[i] \in _JUNK_CHARS
                                            /\ \/ (i > 1 /\ t[i - 1] \in _JUNK_CHARS)
                                               \/ (i < Len(t) /\ t[i + 1] \in _JUNK_CHARS))}),
                               LAMBDA c : c \in _SPECIAL_CHARS)),
                   Whitespace),
           title)

\* The test of a single word.
IsBannedWord(word) ==
    \/ rstrip(str_lower(word), {"!"}) \in _BANNED_WORDS
    \/ str_lower(word) \in _BANNED_WORDS

\* The loop of _remove_banned_words from word i on.
RECURSIVE RemoveBanned(_, _)
RemoveBanned(words, i) ==
    IF i > Len(words) THEN <<>>
    ELSE IF i + 1 <= Len(words)
              /\ str_lower(words[i] \o <<" ">> \o words[i + 1]) \in _BANNED_WORDS
         THEN RemoveBanned(words, i + 2)
    ELSE IF IsBannedWord(words[i]) THEN RemoveBanned(words, i + 1)
    ELSE <<words[i]>> \o RemoveBanned(words, i + 1)

_remove_banned_words(title) ==
    Strict(LAMBDA words : join(RemoveBanned(words, 1)), split(title))

NormalizeWord(word) ==
    Strict(LAMBDA clean :
             IF str_upper(clean) = clean /\ Len(clean) > 1 /\ isalpha(clean)
             THEN IF str_lower(clean) \in _KNOWN_ACRONYMS
                  THEN str_upper(word) ELSE capitalize(word)
             ELSE word,
           strip(word, {".", ",", "!", "-", "(", ")", "#"}))

_normalize_case(title) ==
    Strict(LAMBDA words :
             join(SubSeq([i \in 1..Len(words) |-> NormalizeWord(words[i])],
                         1, Len(words))),
           split(title))

\* A brand or a model that is None or the empty string is not used: the
\* sanitizer only tests them for truth, so one value stands for both.
NoName == <<>>
Given(name) == name # NoName

\* The characters remaining.lstrip("-<en dash><em dash> ") removes.
LeadingSeparators == {"-", "en dash", "em dash", " "}

Extracted(remaining, name) ==
    IF Given(name) THEN strip(sub_pattern(remaining, name, 1), Whitespace)
    ELSE remaining

_front_load_brand_model(title, brand, model) ==
    Strict(LAMBDA remaining :
             LET prefix == IF Given(brand) /\ Given(model) THEN brand \o <<" ">> \o model
                           ELSE IF Given(brand) THEN brand ELSE model
             IN  IF ~(Given(brand) \/ Given(model)) THEN remaining
                 ELSE IF remaining # <<>> THEN prefix \o <<" ">> \o remaining
                 ELSE prefix,
           lstrip(strip(collapse_spaces(Extracted(Extracted(title, brand), model)),
                        Whitespace),
                  LeadingSeparators))

_enforce_length(title) ==
    IF Len(title) <= MAX_TITLE_LENGTH THEN title
    ELSE Strict(LAMBDA truncated :
                  LET spaces == {i \in 1..Len(truncated) : truncated[i] = " "}
                      \* rfind(" "), counted from 0; -1 when there is none
                      last_space == IF spaces = {} THEN -1
                                    ELSE (CHOOSE i \in spaces : \A k \in spaces : k <= i) - 1
                  IN  IF last_space > MAX_TITLE_LENGTH \div 2
                      THEN rstrip(SubSeq(truncated, 1, last_space), Whitespace)
                      ELSE rstrip(truncated, Whitespace),
                SubSeq(title, 1, MAX_TITLE_LENGTH))

_check_brand_model_front(title, brand, model) ==
    Strict(LAMBDA front :
             /\ Given(brand) => Contains(front, str_lower(brand))
             /\ Given(model) => Contains(front, str_lower(model)),
           str_lower(SubSeq(title, 1, IF Len(title) < 30 THEN Len(title) ELSE 30)))

\* One step of the pipeline: the title it leaves and the change it reports.
Changed(st, cleaned, change) ==
    [title |-> cleaned,
     changes |-> IF cleaned # st.title THEN Append(st.changes, change) ELSE st.changes]

SanitizeStep(st, F(_), change) ==
    Strict(LAMBDA s : Strict(LAMBDA cleaned : Changed(s, cleaned, change), F(s.title)), st)

\* TitleSanitizer.sanitize(request): the TitleSanitizeResponse.
sanitize(title, brand, model) ==
    Strict(LAMBDA st :
             Strict(LAMBDA sanitized :
                      [original |-> title,
                       sanitized |-> sanitized,
                       changes |-> IF st.changes = <<>> THEN <<"No changes needed">>
                                   ELSE st.changes,
                       length |-> Len(sanitized),
                       brand_model_in_front |->
                           _check_brand_model_front(sanitized, brand, model)],
                    strip(collapse_spaces(st.title), Whitespace)),
           SanitizeStep(
             Strict(LAMBDA s3 :
                      IF Given(brand) \/ Given(model)
                      THEN SanitizeStep(s3, LAMBDA t : _front_load_brand_model(t, brand, model),
                                        "Moved brand/model to front")
                      ELSE s3,
                    SanitizeStep(
                      SanitizeStep(
                        SanitizeStep([title |-> title, changes |-> <<>>],
                                     _strip_junk, "Removed junk characters"),
                        _remove_banned_words, "Removed spam words"),
                      _normalize_case, "Normalized casing")),
             _enforce_length, "Trimmed to 80 chars"))

\* The words titles are made of, and the brands and models of a request.
TitleWords ==
    {<<"h", "o", "t">>, <<"H", "o", "t", ",">>, <<"W", "O", "W", "!", "!">>,
     <<"m", "u", "s", "t">>, <<"S", "e", "e">>, <<"L", "@", "@", "K">>,
     <<"N", "I", "K", "E">>, <<"U", "S", "B">>, <<"-">>,
     SubSeq([i \in 1..27 |-> "x"], 1, 27)}

MaxTitleWords == 3

Titles ==
    {join(words) : words \in UNION {[1..n -> TitleWords] : n \in 1..MaxTitleWords}}

Brands == {NoName, <<"N", "i", "k", "e">>, <<"H", "o", "t", " ", "W", "h", "e", "e", "l", "s">>}
Models == {NoName, <<"s", "e", "e">>}

\* POST /sanitize: the request is answered once.
Sanitize ==
    /\ last.op = "request"
    /\ last' = [Call("sanitize", None, TRUE)
                   EXCEPT !.detail = [brand |-> last.detail.brand,
                                      model |-> last.detail.model,
                                      response |-> sanitize(last.detail.title,
                                                            last.detail.brand,
                                                            last.detail.model)]]
    /\ UNCHANGED <<listings, entries, gwOffers, gwInventory, nextOfferId>>
    /\ UNCHANGED growthVars

\* ------------------------------------------------- eBay HTTP client
\* Tasks that call EbayHttpClient.request on one client at the same time.
Tasks == {1, 2}
\* The task of the run in which one task calls alone.
SoleTask == {1}
\* EbayRateLimiter(daily_limit, window_seconds) the client is built with.
DailyLimit == 2
WindowSeconds == 1
\* The last second of the run, and the consecutive 429s the server answers.
MaxTime == 2
Max429 == 2
\* Status codes the server answers a request with.
Statuses == {200, 401, 404, 429, 500, 502, 503, 504}
\* expires_in of a token response.
ExpiresIn == {7200, 300}

MAX_RETRIES == 3
\* Seeded fault: a 404 is retried as well.
RETRYABLE_STATUS_CODES_with_404 == {404, 429, 500, 502, 503}

RETRYABLE_STATUS_CODES == {429, 500, 502, 503}
max_backoff_seconds == 300
base_backoff_seconds == 1

NoHttpError == [type |-> "None", message |-> "", status |-> 0]
HttpError(type, message, status) == [type |-> type, message |-> message, status |-> status]

\* EbayHttpClient._map_error(response).
_map_error(status) ==
    IF status \in {401, 403} THEN HttpError("EbayAuthError", "Authentication failed", status)
    ELSE IF status = 404 THEN HttpError("EbayNotFoundError", "Resource not found", status)
    ELSE IF status = 429 THEN HttpError("EbayRateLimitError", "Rate limit exceeded", status)
    ELSE HttpError("EbayError", "eBay API error", status)

\* EbayRateLimiter._prune_old() at time now.
RECURSIVE PruneCalls(_, _)
PruneCalls(calls, cutoff) ==
    IF calls # <<>> /\ calls[1] < cutoff THEN PruneCalls(Tail(calls), cutoff) ELSE calls

_prune_old(lim, now) == [lim EXCEPT !._calls = PruneCalls(lim._calls, now - WindowSeconds)]

\* EbayRateLimiter.record_call().
record_call(lim, now) ==
    [lim EXCEPT !._calls = Append(PruneCalls(lim._calls, now - WindowSeconds), now)]

record_success(lim) == [lim EXCEPT !._consecutive_429s = 0]
record_rate_limit(lim) == [lim EXCEPT !._consecutive_429s = @ + 1]

\* EbayRateLimiter.calls_remaining and is_throttled, read after _prune_old.
calls_remaining(lim) ==
    IF DailyLimit - Len(lim._calls) > 0 THEN DailyLimit - Len(lim._calls) ELSE 0

is_throttled(lim) == calls_remaining(lim) <= 0

RECURSIVE Pow2(_)
Pow2(n) == IF n = 0 THEN 1 ELSE 2 * Pow2(n - 1)

get_backoff_delay(lim) ==
    IF lim._consecutive_429s = 0 THEN 0
    ELSE LET delay == base_backoff_seconds * Pow2(lim._consecutive_429s - 1)
         IN  IF delay < max_backoff_seconds THEN delay ELSE max_backoff_seconds

\* TokenData.is_expired of a cached token; no token is None.
is_expired(expires_at, now) == now >= expires_at - 300

TokenOf(tok, use_app_token) == IF use_app_token THEN tok._app_token ELSE tok._user_token

NeedsToken(tok, use_app_token, now) ==
    TokenOf(tok, use_app_token) = None \/ is_expired(TokenOf(tok, use_app_token), now)

\* EbayTokenManager._handle_token_response for a 200 answer.
_handle_token_response(tok, use_app_token, expires_in, now) ==
    IF use_app_token THEN [tok EXCEPT !._app_token = now + expires_in]
    ELSE [tok EXCEPT !._user_token = now + expires_in]

\* The frame of a request call: where it is suspended, the loop's attempt
\* and last_error, and what the call returned or raised.  sends counts the
\* calls of self._client.request, event is the answer the frame handled last.
NoEvent == [kind |-> "none", status |-> 0]
IdleRequest ==
    [pc |-> "idle", use_app_token |-> FALSE, attempt |-> 0, last_error |-> NoHttpError,
     wake_at |-> 0, sends |-> 0, outcome |-> "none", error |-> NoHttpError,
     event |-> NoEvent]

NewLimiter == [_calls |-> <<>>, _consecutive_429s |-> 0]
NoTokens == [_user_token |-> None, _app_token |-> None]

InitHttpClient ==
    /\ monotonic = 0
    /\ limiter = NewLimiter
    /\ tokens = NoTokens
    /\ requests = [t \in Tasks |-> IdleRequest]

\* The call is over: its locals are gone, what it raised or returned (the
\* response of event) stays.
Finished(f) ==
    [f EXCEPT !.pc = "done", !.use_app_token = FALSE, !.attempt = 0,
              !.last_error = NoHttpError, !.wake_at = 0]

Raised(f, error) == [Finished(f) EXCEPT !.outcome = "raised", !.error = error]
Returned(f) == [Finished(f) EXCEPT !.outcome = "returned"]

\* record_call() and the await of self._client.request.
SendRequest(w, now) ==
    [w EXCEPT !.limiter = record_call(w.limiter, now),
              !.frame = [w.frame EXCEPT !.pc = "send", !.sends = @ + 1]]

\* wait_if_needed after its sleep, then the token: the call raises when the
\* window is full, waits for a token when the cached one is missing or
\* expired, and sends otherwise.
AfterSleep(w, now) ==
    LET pruned == _prune_old(w.limiter, now)
    IN  IF is_throttled(pruned)
        THEN [w EXCEPT !.limiter = pruned,
                       !.frame = Raised(w.frame,
                                        HttpError("EbayRateLimitError", "Daily API limit", 0))]
        ELSE IF NeedsToken(w.tokens, w.frame.use_app_token, now)
        THEN [w EXCEPT !.limiter = pruned, !.frame = [w.frame EXCEPT !.pc = "token"]]
        ELSE SendRequest([w EXCEPT !.limiter = pruned], now)

\* The top of the loop "for attempt in range(MAX_RETRIES)" and the raise
\* that follows the loop.
LoopTop(w, now) ==
    IF w.frame.attempt >= MAX_RETRIES
    THEN [w EXCEPT !.frame =
              Raised(w.frame,
                     IF w.frame.last_error # NoHttpError THEN w.frame.last_error
                     ELSE HttpError("EbayError", "Request failed after all retries", 0))]
    ELSE IF get_backoff_delay(w.limiter) > 0
    THEN [w EXCEPT !.frame = [w.frame EXCEPT !.pc = "sleep",
                                             !.wake_at = now + get_backoff_delay(w.limiter)]]
    ELSE AfterSleep(w, now)

\* "continue" with last_error set.
Continue(w, error, now) ==
    LoopTop([w EXCEPT !.frame = [w.frame EXCEPT !.last_error = error, !.attempt = @ + 1]], now)

\* The loop body after self._client.request answered with event.
HandleResponse(w, event, now) ==
    IF event.kind = "timeout"
    THEN Continue(w, HttpError("EbayError", "Request timed out", 0), now)
    ELSE IF event.kind = "transport"
    THEN Continue(w, HttpError("EbayError", "HTTP transport error", 0), now)
    ELSE IF event.status \in RETRYABLE_STATUS_CODES
    THEN Continue([w EXCEPT !.limiter = IF event.status = 429
                                        THEN record_rate_limit(w.limiter) ELSE w.limiter],
                  _map_error(event.status), now)
    ELSE IF event.status >= 400
    THEN [w EXCEPT !.frame = Raised(w.frame, _map_error(event.status))]
    ELSE [w EXCEPT !.limiter = record_success(w.limiter),
                   !.frame = Returned(w.frame)]

HttpWorld(t) == [limiter |-> limiter, tokens |-> tokens, frame |-> requests[t]]

SetHttpWorld(t, w) ==
    /\ limiter' = w.limiter
    /\ tokens' = w.tokens
    /\ requests' = [requests EXCEPT ![t] = w.frame]
    /\ UNCHANGED <<listings, entries, gwOffers, gwInventory, nextOfferId,
                   clock, offerRecords, sentOffers, campaigns, gwCampaigns, steps,
                   sessions, batch_size, surge, monotonic, last>>

\* Task t calls request(...): the call runs to its first suspension.
Request(t, use_app_token) ==
    /\ requests[t].pc \in {"idle", "done"}
    /\ SetHttpWorld(t, LoopTop([HttpWorld(t) EXCEPT
                                   !.frame = [IdleRequest EXCEPT
                                                 !.use_app_token = use_app_token]],
                               monotonic))

\* asyncio.sleep(delay) is over.
Wake(t) ==
    /\ requests[t].pc = "sleep"
    /\ monotonic >= requests[t].wake_at
    /\ SetHttpWorld(t, AfterSleep(HttpWorld(t), monotonic))

\* The token endpoint answers _refresh_user_token / _fetch_app_token.
TokenEvents ==
    {[kind |-> "timeout", status |-> 0]}
    \cup {[kind |-> "response", status |-> s] : s \in {200, 401}}

TokenResponse(t, event, expires_in) ==
    /\ requests[t].pc = "token"
    /\ LET w == HttpWorld(t)
           f == w.frame
       IN  SetHttpWorld(t,
             IF event.kind = "timeout"
             THEN [w EXCEPT !.frame = Raised(f, HttpError("httpx.TimeoutException", "", 0))]
             ELSE IF event.status # 200
             THEN [w EXCEPT !.frame = Raised(f, HttpError("EbayAuthError",
                                                          "Token request failed",
                                                          event.status))]
             ELSE SendRequest([w EXCEPT
                                  !.tokens = _handle_token_response(
                                                 w.tokens, f.use_app_token,
                                                 expires_in, monotonic),
                                  !.frame = f],
                              monotonic))

\* The server answers self._client.request, or the request fails.
ResponseEvents ==
    {[kind |-> k, status |-> 0] : k \in {"timeout", "transport"}}
    \cup {[kind |-> "response", status |-> s] : s \in Statuses}

\* The events of the run in which tasks share the client.
SharedEvents ==
    {[kind |-> "timeout", status |-> 0]}
    \cup {[kind |-> "response", status |-> s] : s \in {200, 429}}

Response(t, event) ==
    /\ requests[t].pc = "send"
    /\ event.kind = "response" /\ event.status = 429
          => limiter._consecutive_429s < Max429
    /\ SetHttpWorld(t, HandleResponse([HttpWorld(t) EXCEPT !.frame.event = event],
                                      event, monotonic))

\* A second passes.
SecondPasses ==
    /\ monotonic < MaxTime
    /\ monotonic' = monotonic + 1
    /\ UNCHANGED <<listings, entries, gwOffers, gwInventory, nextOfferId,
                   clock, offerRecords, sentOffers, campaigns, gwCampaigns, steps,
                   sessions, batch_size, surge, limiter, tokens, requests, last>>

\* ----------------------------------------------------------------- Init/Next
Init ==
    /\ listings = [l \in CatalogueIds |-> NewListing(l)]
    /\ entries = <<>>
    /\ gwOffers = [o \in 1..MaxIds |-> "NONE"]
    /\ gwInventory = [s \in Skus |->
                        IF \E l \in CatalogueIds : s = InitSku(l)
                        THEN NewListing(1).list_price ELSE None]
    /\ nextOfferId = 1
    /\ clock = 0
    /\ offerRecords = <<>>
    /\ sentOffers = <<>>
    /\ campaigns = <<>>
    /\ gwCampaigns = <<>>
    /\ steps = _parse_steps(RepriceSteps)
    /\ sessions = NoSessions
    /\ InitHttpClient
    /\ batch_size = QueueBatchSize
    /\ surge = DefaultSurge
    /\ last = NoCall

Next ==
    \/ \E l \in DOMAIN listings, priority \in Priorities : Enqueue(l, priority)
    \/ \E outcomes \in [1..MaxEntries -> ReleaseOutcomes], kind \in ErrorKinds \cup {NoError} :
          ReleaseBatch(outcomes, kind)
    \/ \E l \in DOMAIN listings : FlagZombie(l)
    \/ \E l \in DOMAIN listings, outcome \in ResurrectOutcomes : Resurrect(l, outcome)
    \/ \E outcomes \in [DOMAIN listings -> ResurrectOutcomes],
          kind \in ErrorKinds \cup {NoError} :
            AutoRelist(outcomes, kind)
    \/ \E l \in DOMAIN listings, push_ok \in BOOLEAN : EnterPurgatory(l, push_ok)
    \/ \E traffic \in [DOMAIN listings -> ViewValues], report_ok \in BOOLEAN :
          ZombieScan(traffic, report_ok)
    \/ \E l \in DOMAIN listings : Collect(l, RelistCadenceDays)

Spec == Init /\ [][Next]_vars

\* The catalogue once every listing has been enqueued and released.
InitListed ==
    /\ listings = [l \in CatalogueIds |->
                     [NewListing(l) EXCEPT !.status = ACTIVE,
                                           !.ebay_item_id = publish_offer(l),
                                           !.offer_id = l]]
    /\ entries = [i \in 1..Cardinality(CatalogueIds) |->
                     [listing_id |-> i, priority |-> 0, status |-> RELEASED,
                      error_message |-> "", batch_id |-> 1]]
    /\ gwOffers = [o \in 1..MaxIds |-> IF o \in CatalogueIds THEN "PUBLISHED" ELSE "NONE"]
    /\ gwInventory = [s \in Skus |->
                        IF \E l \in CatalogueIds : s = InitSku(l)
                        THEN NewListing(1).list_price ELSE None]
    /\ nextOfferId = Cardinality(CatalogueIds) + 1
    /\ last = NoCall

\* OfferSniper runs and buyer offers against the listed catalogue.
InitOffer ==
    /\ InitListed
    /\ clock = 0
    /\ offerRecords = <<>>
    /\ sentOffers = <<>>
    /\ campaigns = <<>>
    /\ gwCampaigns = <<>>
    /\ steps = _parse_steps(RepriceSteps)
    /\ sessions = NoSessions
    /\ InitHttpClient
    /\ batch_size = QueueBatchSize
    /\ surge = DefaultSurge

NextOffer ==
    \/ \E watchers \in [DOMAIN listings -> WatcherLists],
          watch_fails \in SUBSET DOMAIN listings,
          send_fails \in SUBSET Buyers,
          kind \in ErrorKinds \cup {NoError} :
            ScanAndSnipe(watchers, watch_fails, send_fails, kind)
    \/ \E l \in DOMAIN listings, buyer_id \in Buyers,
          offer_amount \in InboundAmounts, respond_ok \in BOOLEAN :
            HandleIncomingOffer(l, buyer_id, offer_amount, respond_ok)
    \/ \E d \in TickHours : Tick(d)

SpecOffer == InitOffer /\ [][NextOffer]_vars

\* Buyer offers on a listing at its list price or marked down.
InitInbound ==
    /\ \E current_price \in (InboundPrices \ {NewListing(1).list_price}) \cup {None} :
          listings = [l \in CatalogueIds |->
                        [NewListing(l) EXCEPT !.status = ACTIVE,
                                              !.ebay_item_id = publish_offer(l),
                                              !.offer_id = l,
                                              !.current_price = current_price]]
    /\ entries = [i \in 1..Cardinality(CatalogueIds) |->
                     [listing_id |-> i, priority |-> 0, status |-> RELEASED,
                      error_message |-> "", batch_id |-> 1]]
    /\ gwOffers = [o \in 1..MaxIds |-> IF o \in CatalogueIds THEN "PUBLISHED" ELSE "NONE"]
    /\ gwInventory = [s \in Skus |->
                        IF \E l \in CatalogueIds : s = InitSku(l)
                        THEN NewListing(1).list_price ELSE None]
    /\ nextOfferId = Cardinality(CatalogueIds) + 1
    /\ last = NoCall
    /\ clock = 0
    /\ offerRecords = <<>>
    /\ sentOffers = <<>>
    /\ campaigns = <<>>
    /\ gwCampaigns = <<>>
    /\ steps = _parse_steps(RepriceSteps)
    /\ sessions = NoSessions
    /\ InitHttpClient
    /\ batch_size = QueueBatchSize
    /\ surge = DefaultSurge

NextInbound ==
    \/ \E l \in DOMAIN listings, buyer_id \in Buyers,
          offer_amount \in InboundAmounts \cup ThresholdAmounts, respond_ok \in BOOLEAN :
            HandleIncomingOffer(l, buyer_id, offer_amount, respond_ok)
    \/ \E d \in TickHours : Tick(d)

SpecInbound == InitInbound /\ [][NextInbound]_vars

\* Kickstarter promotions and clean-ups while the zombie pipeline runs.
InitKick == InitOffer

NextKick ==
    \/ \E l \in DOMAIN listings, outcome \in PromoteOutcomes : PromoteNewListing(l, outcome)
    \/ \E end_fails \in SUBSET (1..MaxCampaigns), kind \in ErrorKinds \cup {NoError} :
          CleanupExpired(end_fails, kind)
    \/ \E n \in TickDayValues : TickDays(n)
    \/ \E l \in DOMAIN listings : FlagZombie(l)
    \/ \E l \in DOMAIN listings, outcome \in ResurrectOutcomes : Resurrect(l, outcome)

SpecKick == InitKick /\ [][NextKick]_vars

\* Kickstarter calls of several callers, interleaved at their awaits.
NextConcurrent ==
    \/ \E c \in Callers, l \in DOMAIN listings : PromoteGet(c, l)
    \/ \E c \in Callers : PromoteSelect(c)
    \/ \E c \in Callers, outcome \in PromoteOutcomes : PromoteCreate(c, outcome)
    \/ \E c \in Callers : PromoteFlush(c)
    \/ \E c \in Callers : PromoteCommit(c)
    \/ \E end_fails \in SUBSET (1..MaxCampaigns), kind \in ErrorKinds \cup {NoError} :
          CleanupExpired(end_fails, kind)
    \/ \E n \in TickDayValues : TickDays(n)
    \/ \E l \in DOMAIN listings : FlagZombie(l)

SpecConcurrent == InitKick /\ [][NextConcurrent]_vars

\* Resurrector calls of several callers on the listed catalogue, interleaved
\* at their awaits.
NextResurrectConcurrent ==
    \/ \E c \in Callers, l \in DOMAIN listings : ResurrectGet(c, l)
    \/ \E c \in Callers, outcome \in StepOutcomes : ResurrectWithdraw(c, outcome)
    \/ \E c \in Callers : ResurrectSleep(c)
    \/ \E c \in Callers, outcome \in StepOutcomes : ResurrectCreateItem(c, outcome)
    \/ \E c \in Callers, outcome \in StepOutcomes : ResurrectCreateOffer(c, outcome)
    \/ \E c \in Callers, outcome \in StepOutcomes : ResurrectPublish(c, outcome)
    \/ \E c \in Callers : ResurrectCommit(c)

SpecResurrectConcurrent == InitKick /\ [][NextResurrectConcurrent]_vars

\* OfferSniper runs of several callers on the listed catalogue, interleaved
\* at their awaits, while the clock runs.
NextSnipeConcurrent ==
    \/ \E c \in Callers : SnipeSelect(c)
    \/ \E c \in Callers, watchers \in [1..1 -> {"b1", NoBuyer}] \cup {<<>>},
          outcome \in StepOutcomes :
            SnipeGetWatchers(c, watchers, outcome)
    \/ \E c \in Callers : SnipeCheck(c)
    \/ \E c \in Callers, outcome \in StepOutcomes : SnipeSend(c, outcome)
    \/ \E c \in Callers : SnipeCommit(c)
    \/ \E d \in TickHours : Tick(d)

SpecSnipeConcurrent == InitOffer /\ [][NextSnipeConcurrent]_vars

\* Releases of a queue that holds one pending entry for each of three queued
\* listings, under a configured batch size.
InitQueue ==
    /\ listings = [l \in QueueIds |-> [NewListing(l) EXCEPT !.status = QUEUED]]
    /\ \E priority \in [QueueIds -> QueuePriorities] :
          entries = [i \in 1..Cardinality(QueueIds) |->
                       [listing_id |-> i, priority |-> priority[i], status |-> PENDING,
                        error_message |-> "", batch_id |-> None]]
    /\ gwOffers = [o \in 1..MaxIds |-> "NONE"]
    /\ gwInventory = [s \in Skus |->
                        IF \E l \in QueueIds : s = InitSku(l)
                        THEN NewListing(1).list_price ELSE None]
    /\ nextOfferId = 1
    /\ clock = 0
    /\ offerRecords = <<>>
    /\ sentOffers = <<>>
    /\ campaigns = <<>>
    /\ gwCampaigns = <<>>
    /\ steps = _parse_steps(RepriceSteps)
    /\ sessions = NoSessions
    /\ InitHttpClient
    /\ batch_size \in QueueBatchSizes \cup {QueueBatchSize}
    /\ surge = DefaultSurge
    /\ last = NoCall

NextQueue ==
    \/ \E outcomes \in [DOMAIN entries -> ReleaseOutcomes],
          kind \in ErrorKinds \cup {NoError} :
            ReleaseBatch(outcomes, kind)
    \/ ReleaseBatchDryRun

SpecQueue == InitQueue /\ [][NextQueue]_vars

\* The queue when release_batch keeps being invoked and the gateway stops
\* failing: a release whose calls all succeed is not put off for ever.
SpecQueueFair ==
    /\ InitQueue
    /\ [][NextQueue]_vars
    /\ WF_vars(ReleaseBatch([i \in DOMAIN entries |-> "ok"], NoError))

\* The queue after two enqueue calls, for one listing or for two, with
\* release_batch run by several callers at once.
QueuedTwice == {<<1, 1>>, <<1, 2>>}

InitReleaseConcurrent ==
    /\ \E enqueued \in QueuedTwice :
          /\ listings = [l \in ListingIds |->
                           [NewListing(l) EXCEPT
                              !.status = IF \E i \in 1..2 : enqueued[i] = l
                                         THEN QUEUED ELSE DRAFT]]
          /\ entries = [i \in 1..2 |->
                          [listing_id |-> enqueued[i], priority |-> 0, status |-> PENDING,
                           error_message |-> "", batch_id |-> None]]
    /\ gwOffers = [o \in 1..MaxIds |-> "NONE"]
    /\ gwInventory = [s \in Skus |->
                        IF \E l \in ListingIds : s = InitSku(l)
                        THEN NewListing(1).list_price ELSE None]
    /\ nextOfferId = 1
    /\ clock = 0
    /\ offerRecords = <<>>
    /\ sentOffers = <<>>
    /\ campaigns = <<>>
    /\ gwCampaigns = <<>>
    /\ steps = _parse_steps(RepriceSteps)
    /\ sessions = NoSessions
    /\ InitHttpClient
    /\ batch_size \in QueueBatchSizes
    /\ surge = DefaultSurge
    /\ last = NoCall

NextReleaseConcurrent ==
    \/ \E c \in Callers : ReleaseSelect(c)
    \/ \E c \in Callers, outcome \in ReleaseOutcomes : ReleasePublish(c, outcome)
    \/ \E c \in Callers : ReleaseCommit(c)

SpecReleaseConcurrent == InitReleaseConcurrent /\ [][NextReleaseConcurrent]_vars

\* The policies that set a price and the OfferSniper on one listed listing
\* as it ages: the Repricer, Purgatory and the resurrection that makes a
\* purgatory listing active again, with a gateway that does not fail.
SnipeDays == {14, 45}

NextCrossPolicy ==
    \/ \E watchers \in [DOMAIN listings -> [1..1 -> Buyers]] :
          ScanAndSnipe(watchers, {}, {}, NoError)
    \/ ScanAndReprice(TRUE, NoError)
    \/ \E l \in DOMAIN listings, days \in SnipeDays : Collect(l, days)
    \/ \E l \in DOMAIN listings : EnterPurgatory(l, TRUE)
    \/ \E l \in DOMAIN listings : Resurrect(l, "ok")

SpecCrossPolicy == InitOffer /\ [][NextCrossPolicy]_vars

\* The "days:percent,..." strings a ladder is configured from.
LadderItems == {NoColon} \cup (LadderDays \X LadderPercents)
LadderStrings == UNION {[1..n -> LadderItems] : n \in 0..MaxLadderLen}

\* Repricer scans of the listed catalogue under any configured ladder, with
\* or without a running promotion.
InitReprice ==
    /\ \E ad_rate \in {0, KickstarterAdRate},
          purchase_price \in [RepriceIds -> PurchasePrices] :
          listings = [l \in RepriceIds |->
                        [NewListing(l) EXCEPT !.status = ACTIVE,
                                              !.ebay_item_id = publish_offer(l),
                                              !.offer_id = l,
                                              !.purchase_price = purchase_price[l],
                                              !.ad_rate_percent = ad_rate]]
    /\ entries = [i \in 1..Cardinality(RepriceIds) |->
                     [listing_id |-> i, priority |-> 0, status |-> RELEASED,
                      error_message |-> "", batch_id |-> 1]]
    /\ gwOffers = [o \in 1..MaxIds |-> IF o \in RepriceIds THEN "PUBLISHED" ELSE "NONE"]
    /\ gwInventory = [s \in Skus |->
                        IF \E l \in RepriceIds : s = InitSku(l)
                        THEN NewListing(1).list_price ELSE None]
    /\ nextOfferId = Cardinality(RepriceIds) + 1
    /\ clock = 0
    /\ offerRecords = <<>>
    /\ sentOffers = <<>>
    /\ campaigns = <<>>
    /\ gwCampaigns = <<>>
    /\ steps \in {_parse_steps(steps_str) : steps_str \in LadderStrings}
    /\ sessions = NoSessions
    /\ InitHttpClient
    /\ batch_size = QueueBatchSize
    /\ surge = DefaultSurge
    /\ last = NoCall

NextReprice ==
    \/ \E push_ok \in BOOLEAN, kind \in ErrorKinds \cup {NoError} :
          ScanAndReprice(push_ok, kind)
    \/ \E l \in DOMAIN listings, days \in LadderDays : Collect(l, days)

SpecReprice == InitReprice /\ [][NextReprice]_vars

\* Promotions and clean-ups over two listings, as the days pass.
InitCleanup ==
    /\ listings = [l \in RepriceIds |->
                     [NewListing(l) EXCEPT !.status = ACTIVE,
                                           !.ebay_item_id = publish_offer(l),
                                           !.offer_id = l]]
    /\ entries = [i \in 1..Cardinality(RepriceIds) |->
                     [listing_id |-> i, priority |-> 0, status |-> RELEASED,
                      error_message |-> "", batch_id |-> 1]]
    /\ gwOffers = [o \in 1..MaxIds |-> IF o \in RepriceIds THEN "PUBLISHED" ELSE "NONE"]
    /\ gwInventory = [s \in Skus |->
                        IF \E l \in RepriceIds : s = InitSku(l)
                        THEN NewListing(1).list_price ELSE None]
    /\ nextOfferId = Cardinality(RepriceIds) + 1
    /\ clock = 0
    /\ offerRecords = <<>>
    /\ sentOffers = <<>>
    /\ campaigns = <<>>
    /\ gwCampaigns = <<>>
    /\ steps = _parse_steps(RepriceSteps)
    /\ sessions = NoSessions
    /\ InitHttpClient
    /\ batch_size = QueueBatchSize
    /\ surge = DefaultSurge
    /\ last = NoCall

NextCleanup ==
    \/ \E l \in DOMAIN listings, outcome \in PromoteOutcomes : PromoteNewListing(l, outcome)
    \/ \E end_fails \in SUBSET (1..MaxCampaigns), kind \in ErrorKinds \cup {NoError} :
          CleanupExpired(end_fails, kind)
    \/ \E n \in TickDayValues : TickDays(n)

SpecCleanup == InitCleanup /\ [][NextCleanup]_vars

\* Zombie scans of two active listings at and around the thresholds; the
\* second listing may lack a marketplace item id.
InitZombieScan ==
    /\ \E days \in [RepriceIds -> ZombieDays], cycles \in ZombieCycles,
          views \in ZombieViews, item_id \in {None, publish_offer(2)} :
          listings = [l \in RepriceIds |->
                        [NewListing(l) EXCEPT
                            !.status = ACTIVE,
                            !.ebay_item_id = IF l = 1 THEN publish_offer(l) ELSE item_id,
                            !.offer_id = l,
                            !.days_active = days[l],
                            !.total_views = IF l = 1 THEN 0 ELSE views,
                            !.zombie_cycle_count = IF l = 1 THEN cycles ELSE 0]]
    /\ entries = [i \in 1..Cardinality(RepriceIds) |->
                     [listing_id |-> i, priority |-> 0, status |-> RELEASED,
                      error_message |-> "", batch_id |-> 1]]
    /\ gwOffers = [o \in 1..MaxIds |-> IF o \in RepriceIds THEN "PUBLISHED" ELSE "NONE"]
    /\ gwInventory = [s \in Skus |->
                        IF \E l \in RepriceIds : s = InitSku(l)
                        THEN NewListing(1).list_price ELSE None]
    /\ nextOfferId = Cardinality(RepriceIds) + 1
    /\ clock = 0
    /\ offerRecords = <<>>
    /\ sentOffers = <<>>
    /\ campaigns = <<>>
    /\ gwCampaigns = <<>>
    /\ steps = _parse_steps(RepriceSteps)
    /\ sessions = NoSessions
    /\ InitHttpClient
    /\ batch_size = QueueBatchSize
    /\ surge = DefaultSurge
    /\ last = NoCall

NextZombieScan ==
    \E traffic \in [DOMAIN listings -> ZombieViews \cup {0}], report_ok \in BOOLEAN :
        ZombieScan(traffic, report_ok)

SpecZombieScan == InitZombieScan /\ [][NextZombieScan]_vars

\* Surge-window questions to a queue configured with any of the days, hours
\* and time zones.
InitSurge ==
    /\ \E name \in SurgeDayNames, hours \in SurgeHours, tz \in SurgeZones :
          surge = [surge_day |-> lower(name), surge_start |-> hours[1],
                   surge_end |-> hours[2], tz |-> tz]
    /\ listings = [l \in QueueIds |-> [NewListing(l) EXCEPT !.status = QUEUED]]
    /\ entries = [i \in 1..Cardinality(QueueIds) |->
                     [listing_id |-> i, priority |-> 0, status |-> PENDING,
                      error_message |-> "", batch_id |-> None]]
    /\ gwOffers = [o \in 1..MaxIds |-> "NONE"]
    /\ gwInventory = [s \in Skus |->
                        IF \E l \in QueueIds : s = InitSku(l)
                        THEN NewListing(1).list_price ELSE None]
    /\ nextOfferId = 1
    /\ clock = 0
    /\ offerRecords = <<>>
    /\ sentOffers = <<>>
    /\ campaigns = <<>>
    /\ gwCampaigns = <<>>
    /\ steps = _parse_steps(RepriceSteps)
    /\ sessions = NoSessions
    /\ InitHttpClient
    /\ batch_size = QueueBatchSize
    /\ last = NoCall

NextSurge == \E now \in Datetimes : IsSurgeWindowActive(now)

SpecSurge == InitSurge /\ [][NextSurge]_vars

\* The zombie pipeline over a listed catalogue whose first listing was created
\* with any of the original SKUs.
InitSkuRun ==
    /\ \E sku \in OriginalSkus :
          /\ listings = [l \in CatalogueIds |->
                           [NewListing(l) EXCEPT !.status = ACTIVE,
                                                 !.sku = IF l = 1 THEN sku ELSE @,
                                                 !.ebay_item_id = publish_offer(l),
                                                 !.offer_id = l]]
          /\ gwInventory = [s \in Skus |->
                              IF \E l \in CatalogueIds : s = listings[l].sku
                              THEN NewListing(1).list_price ELSE None]
    /\ entries = [i \in 1..Cardinality(CatalogueIds) |->
                     [listing_id |-> i, priority |-> 0, status |-> RELEASED,
                      error_message |-> "", batch_id |-> 1]]
    /\ gwOffers = [o \in 1..MaxIds |-> IF o \in CatalogueIds THEN "PUBLISHED" ELSE "NONE"]
    /\ nextOfferId = Cardinality(CatalogueIds) + 1
    /\ clock = 0
    /\ offerRecords = <<>>
    /\ sentOffers = <<>>
    /\ campaigns = <<>>
    /\ gwCampaigns = <<>>
    /\ steps = _parse_steps(RepriceSteps)
    /\ sessions = NoSessions
    /\ InitHttpClient
    /\ batch_size = QueueBatchSize
    /\ surge = DefaultSurge
    /\ last = NoCall

NextSkuRun ==
    \/ \E l \in DOMAIN listings : FlagZombie(l)
    \/ \E l \in DOMAIN listings, outcome \in ResurrectOutcomes : Resurrect(l, outcome)

SpecSkuRun == InitSkuRun /\ [][NextSkuRun]_vars

\* The zombie pipeline and the relister over two listings that were never
\* released and whose SKUs differ only after an inner "_R".
SessionIds == {1, 2}

InitSession ==
    /\ listings = [l \in SessionIds |->
                     [NewListing(l) EXCEPT
                        !.sku = IF l = 1 THEN <<"A", "_", "R", "E", "D">>
                                ELSE <<"A", "_", "R", "O", "T">>]]
    /\ entries = <<>>
    /\ gwOffers = [o \in 1..MaxIds |-> "NONE"]
    /\ gwInventory = [s \in Skus |->
                        IF \E l \in SessionIds : s = listings[l].sku
                        THEN NewListing(1).list_price ELSE None]
    /\ nextOfferId = 1
    /\ clock = 0
    /\ offerRecords = <<>>
    /\ sentOffers = <<>>
    /\ campaigns = <<>>
    /\ gwCampaigns = <<>>
    /\ steps = _parse_steps(RepriceSteps)
    /\ sessions = NoSessions
    /\ InitHttpClient
    /\ batch_size = QueueBatchSize
    /\ surge = DefaultSurge
    /\ last = NoCall

NextSession ==
    \/ \E l \in DOMAIN listings, outcome \in ResurrectOutcomes : Resurrect(l, outcome)
    \/ \E outcomes \in [DOMAIN listings -> ResurrectOutcomes],
          kind \in ErrorKinds \cup {NoError} :
            AutoRelist(outcomes, kind)
    \/ \E traffic \in [DOMAIN listings -> ViewValues], report_ok \in BOOLEAN :
          ZombieScan(traffic, report_ok)
    \/ \E l \in DOMAIN listings : Collect(l, RelistCadenceDays)

SpecSession == InitSession /\ [][NextSession]_vars

\* The scanning policies of the lifecycle over two listed listings, one with
\* three photos and one with a single photo.
InitScans ==
    /\ listings = [l \in RepriceIds |->
                     [NewListing(l) EXCEPT !.status = ACTIVE,
                                           !.ebay_item_id = publish_offer(l),
                                           !.offer_id = l]]
    /\ entries = [i \in 1..Cardinality(RepriceIds) |->
                     [listing_id |-> i, priority |-> 0, status |-> RELEASED,
                      error_message |-> "", batch_id |-> 1]]
    /\ gwOffers = [o \in 1..MaxIds |-> IF o \in RepriceIds THEN "PUBLISHED" ELSE "NONE"]
    /\ gwInventory = [s \in Skus |->
                        IF \E l \in RepriceIds : s = InitSku(l)
                        THEN NewListing(1).list_price ELSE None]
    /\ nextOfferId = Cardinality(RepriceIds) + 1
    /\ clock = 0
    /\ offerRecords = <<>>
    /\ sentOffers = <<>>
    /\ campaigns = <<>>
    /\ gwCampaigns = <<>>
    /\ steps = _parse_steps(RepriceSteps)
    /\ sessions = NoSessions
    /\ InitHttpClient
    /\ batch_size = QueueBatchSize
    /\ surge = DefaultSurge
    /\ last = NoCall

NextScans ==
    \/ \E update_fails \in SUBSET DOMAIN listings : ScanAndShuffle(update_fails)
    \/ \E push_ok \in BOOLEAN, kind \in ErrorKinds \cup {NoError} :
          ScanAndReprice(push_ok, kind)
    \/ \E traffic \in [DOMAIN listings -> ViewValues], report_ok \in BOOLEAN :
          ZombieScan(traffic, report_ok)
    \/ \E l \in DOMAIN listings, days \in {PhotoShuffleDaysNoViews, RelistCadenceDays} :
          Collect(l, days)

SpecScans == InitScans /\ [][NextScans]_vars

\* The preview operations of the policies, while listings age.
NextPreview ==
    \/ \E push_ok \in BOOLEAN, kind \in ErrorKinds \cup {NoError} :
          preview_repricing(push_ok, kind)
    \/ ScanForRelists
    \/ \E traffic \in [DOMAIN listings -> ViewValues], report_ok \in BOOLEAN :
          ZombieScan(traffic, report_ok)
    \/ \E l \in DOMAIN listings, days \in {PhotoShuffleDaysNoViews, RelistCadenceDays} :
          Collect(l, days)

SpecPreview == InitScans /\ [][NextPreview]_vars

\* A TitleSanitizeRequest and its answer.
InitSanitize ==
    /\ listings = [l \in CatalogueIds |-> NewListing(l)]
    /\ entries = <<>>
    /\ gwOffers = [o \in 1..MaxIds |-> "NONE"]
    /\ gwInventory = [s \in Skus |->
                        IF \E l \in CatalogueIds : s = InitSku(l)
                        THEN NewListing(1).list_price ELSE None]
    /\ nextOfferId = 1
    /\ clock = 0
    /\ offerRecords = <<>>
    /\ sentOffers = <<>>
    /\ campaigns = <<>>
    /\ gwCampaigns = <<>>
    /\ steps = _parse_steps(RepriceSteps)
    /\ sessions = NoSessions
    /\ InitHttpClient
    /\ batch_size = QueueBatchSize
    /\ surge = DefaultSurge
    /\ \E title \in Titles, brand \in Brands, model \in Models :
          last = [Call("request", None, TRUE)
                     EXCEPT !.detail = [title |-> title, brand |-> brand, model |-> model]]

NextSanitize == Sanitize

SpecSanitize == InitSanitize /\ [][NextSanitize]_vars

\* One task calling EbayHttpClient.request again and again, the server
\* answering with any of the events.
NextRequest ==
    \/ \E t \in SoleTask, use_app_token \in BOOLEAN : Request(t, use_app_token)
    \/ \E t \in SoleTask : Wake(t)
    \/ \E t \in SoleTask, event \in TokenEvents, expires_in \in ExpiresIn :
          TokenResponse(t, event, expires_in)
    \/ \E t \in SoleTask, event \in ResponseEvents : Response(t, event)
    \/ SecondPasses

SpecRequest == Init /\ [][NextRequest]_vars

\* Tasks sharing one EbayHttpClient, its rate limiter and its token manager,
\* the server answering 200, 429 or not in time.
NextHttp ==
    \/ \E t \in Tasks, use_app_token \in BOOLEAN : Request(t, use_app_token)
    \/ \E t \in Tasks : Wake(t)
    \/ \E t \in Tasks, event \in TokenEvents, expires_in \in ExpiresIn :
          TokenResponse(t, event, expires_in)
    \/ \E t \in Tasks, event \in SharedEvents : Response(t, event)
    \/ SecondPasses

SpecHttp == Init /\ [][NextHttp]_vars

\* ------------------------------------------------------ lifecycle properties
StatusEdges ==
    {<<DRAFT, QUEUED>>, <<QUEUED, ACTIVE>>,
     <<ACTIVE, ZOMBIE>>, <<ACTIVE, SOLD>>, <<ACTIVE, ENDED>>,
     <<ZOMBIE, ACTIVE>>, <<ZOMBIE, PURGATORY>>,
     <<PURGATORY, SOLD>>, <<PURGATORY, ENDED>>}

\* C2: every status change an engine operation makes is an edge of the status
\* graph; an operation the current status does not permit changes nothing.
C2_StatusChangesFollowGraph ==
    [][\A l \in DOMAIN listings :
          listings'[l].status # listings[l].status
             => <<listings[l].status, listings'[l].status>> \in StatusEdges]_vars

\* C3: a resurrect that fails at a gateway step returns success = false,
\* changes no field of the listing row and appends no ZombieRecord, and the
\* withdraw that preceded the failing step stays in effect.
C3_FailedResurrectLeavesRow ==
    [][(last'.op = "resurrect" /\ ~last'.ok) =>
          LET l == last'.listing
              old_offer_id == listings[l].offer_id
          IN  /\ listings' = listings
              /\ last'.records = <<>>
              /\ (last'.failed # "withdraw_offer" /\ old_offer_id # None)
                    => gwOffers'[old_offer_id] = "WITHDRAWN"]_vars

\* A resurrect failed at publish after it withdrew the listing's offer: the
\* row still names the withdrawn offer and the created offer is orphaned.
C3_Witness ==
    /\ last.op = "resurrect" /\ ~last.ok /\ last.failed = "publish_offer"
    /\ listings[last.listing].offer_id # None
    /\ gwOffers[listings[last.listing].offer_id] = "WITHDRAWN"
    /\ \E o \in DOMAIN gwOffers : gwOffers[o] = "CREATED"

\* C4: a listing with a pending QueueEntry has status queued.
C4_PendingImpliesQueued ==
    \A i \in 1..Len(entries) :
        entries[i].status = PENDING
           => listings[entries[i].listing_id].status = QUEUED

\* C6: after a successful resurrect of a listing whose counter was c the row
\* is active with days_active, total_views and watchers 0 and counter c + 1,
\* its first two photos are swapped, its item id and offer id are new, and
\* exactly one ZombieRecord (resurrected, cycle c + 1) was appended.
C6_ResurrectPostState ==
    [][(last'.op = "resurrect" /\ last'.ok) =>
          LET l == last'.listing
              old == listings[l]
              new == listings'[l]
              c == old.zombie_cycle_count
              n == Len(old.photo_urls)
          IN  /\ new.status = ACTIVE
              /\ new.days_active = 0 /\ new.total_views = 0 /\ new.watchers = 0
              /\ new.zombie_cycle_count = c + 1
              /\ Len(new.photo_urls) = n
              /\ n >= 2 => /\ new.photo_urls[1] = old.photo_urls[2]
                           /\ new.photo_urls[2] = old.photo_urls[1]
              /\ \A k \in 3..n : new.photo_urls[k] = old.photo_urls[k]
              /\ new.ebay_item_id # None /\ new.ebay_item_id # old.ebay_item_id
              /\ new.offer_id # None /\ new.offer_id # old.offer_id
              /\ Len(last'.records) = 1
              /\ last'.records[1].listing_id = l
              /\ last'.records[1].action_taken = RESURRECTED
              /\ last'.records[1].cycle_number = c + 1]_vars

\* A watched, aged listing was resurrected for the second time.
C6_Witness ==
    /\ last.op = "resurrect" /\ last.ok
    /\ listings[last.listing].zombie_cycle_count = 2
    /\ listings[last.listing].photo_urls = InitPhotos(last.listing)
    /\ Cardinality({o \in DOMAIN gwOffers : gwOffers[o] = "WITHDRAWN"}) = 2

\* C7: auto_relist leaves every listing's zombie_cycle_count as it was.
C7_AutoRelistPreservesCycle ==
    [][last'.op = "auto_relist" =>
          \A l \in DOMAIN listings :
              listings'[l].zombie_cycle_count = listings[l].zombie_cycle_count]_vars

\* auto_relist relisted a listing that had been resurrected once before.
C7_Witness ==
    /\ last.op = "auto_relist"
    /\ \E l \in last.relisted : listings[l].zombie_cycle_count = 1

\* C8 (as stated): no write a policy performs replaces the counter with a
\* smaller value.
C8_NoWriteLowersCycle ==
    \A i \in 1..Len(last.cycle_writes) :
        last.cycle_writes[i][3] >= last.cycle_writes[i][2]

\* C8 (amended): from one committed call to the next, zombie_cycle_count of
\* a listing never decreases.
C8_CycleMonotoneAcrossCalls ==
    [][\A l \in DOMAIN listings :
          listings'[l].zombie_cycle_count >= listings[l].zombie_cycle_count]_vars

\* A preventive relist ran: inside the call the counter went up and was
\* written back down, and after the call it is what it was before.
C8_Witness ==
    /\ last.op = "auto_relist"
    /\ Len(last.cycle_writes) = 2
    /\ last.cycle_writes[1][3] > last.cycle_writes[1][2]
    /\ last.cycle_writes[2][3] = last.cycle_writes[1][2]

\* ------------------------------------------------------ OfferSniper properties
\* C1: two outbound offers to the same (listing, buyer) are never less than
\* 24 hours apart; and a run without errors sends an offer to every watcher
\* of an eligible listing that has no OfferRecord for that pair in the last
\* 24 hours, whatever other buyers were offered.
C1_OfferCooldown ==
    /\ [](\A i \in 1..Len(sentOffers), j \in 1..Len(sentOffers) :
             (i < j /\ sentOffers[i][1] = sentOffers[j][1]
                    /\ sentOffers[i][2] = sentOffers[j][2])
                => sentOffers[j][3] - sentOffers[i][3] >= CooldownHours)
    /\ [][(last'.op = "scan_and_snipe" /\ last'.ok) =>
             \A l \in SnipeTargets : \A b \in last'.detail.watching[l] :
                 (\A i \in 1..Len(offerRecords) :
                     (offerRecords[i].listing_id = l /\ offerRecords[i].buyer_id = b)
                        => offerRecords[i].sent_at + CooldownHours < clock)
                    => \E k \in (Len(sentOffers) + 1)..Len(sentOffers') :
                          sentOffers'[k] = <<l, b, clock>>]_vars

\* A pair was offered, the other buyer of the listing was offered less than
\* 24 hours later, and the pair was offered again after more than 24 hours.
C1_Witness ==
    \E i, j, k \in 1..Len(sentOffers) :
        /\ sentOffers[i][1] = sentOffers[j][1] /\ sentOffers[i][2] = sentOffers[j][2]
        /\ sentOffers[j][3] > sentOffers[i][3]
        /\ sentOffers[k][1] = sentOffers[i][1] /\ sentOffers[k][2] # sentOffers[i][2]
        /\ sentOffers[k][3] > sentOffers[i][3]
        /\ sentOffers[k][3] < sentOffers[i][3] + CooldownHours
        /\ last.op = "scan_and_snipe"

\* ------------------------------------------------------ Kickstarter properties
\* C5: every listing has at most one active Campaign; a promote call on a
\* listing that has one fails, adds no Campaign row, calls no gateway method
\* and leaves the listing's ad rate as it was.
C5_OneActiveCampaign ==
    /\ [](\A l \in DOMAIN listings : Cardinality(ExistingActive(campaigns, l)) <= 1)
    /\ [][(last'.op = "promote_new_listing"
              /\ \E i \in 1..Len(campaigns) :
                    campaigns[i].listing_id = last'.listing /\ campaigns[i].status = ACTIVE)
            => /\ ~last'.ok
               /\ campaigns' = campaigns
               /\ gwCampaigns' = gwCampaigns
               /\ last'.detail.gateway_calls = <<>>
               /\ listings' = listings]_vars

\* A second promotion of a listing was refused while its campaign ran, after
\* an earlier campaign of the listing had expired and been ended.
C5_Witness ==
    /\ last.op = "promote_new_listing" /\ ~last.ok
    /\ last.detail.error = "Active campaign already exists"
    /\ \E i, j \in 1..Len(campaigns) :
          /\ campaigns[i].listing_id = last.listing /\ campaigns[i].status = ENDED
          /\ campaigns[j].listing_id = last.listing /\ campaigns[j].status = ACTIVE

\* --------------------------------------------------------- Repricer properties
\* C9: the scan that follows a scan whose bulk push failed puts the prices of
\* the listings that scan repriced into its own bulk push.
C9_NextScanPushesAgain ==
    [][(last.op = "scan_and_reprice" /\ last.failed = "bulk_update_price_quantity"
          /\ last'.op = "scan_and_reprice")
         => last.detail.repriced \subseteq last'.detail.pushed]_vars

\* The percents of a parsed ladder never go down as the days go up.
NonDecreasingPercents(ladder) ==
    \A i, j \in 1..Len(ladder) : i <= j => ladder[i][2] <= ladder[j][2]

\* From one step of the ladder to the next the price does not go up, and at
\* every step it is at least the minimum viable price rounded to cents.
LadderMonotone(ladder, listing) ==
    /\ \A i, j \in 1..Len(ladder) :
          i <= j => StepPrice(listing, ladder[i][2]) >= StepPrice(listing, ladder[j][2])
    /\ \A i \in 1..Len(ladder) :
          StepPrice(listing, ladder[i][2]) >=
             RoundedMin(find_minimum_price(listing.purchase_price, listing.shipping_cost,
                                           listing.ad_rate_percent))

TargetPrice(ladder, listing) ==
    LET step == _get_step(ladder, listing.days_active)
        marked == RoundDiv(listing.list_price * (100 - ladder[step][2]), 100)
        floor == find_minimum_price(listing.purchase_price, listing.shipping_cost,
                                    listing.ad_rate_percent)
    IN  IF step = 0 THEN None
        ELSE IF marked * floor.den < floor.num THEN RoundDiv(floor.num, floor.den)
        ELSE marked

\* C11: markdowns never compound.  After every scan an active listing on a
\* step carries the price of that step taken off list_price, whatever its
\* price was before; and a scan that finds a listing already at the price of
\* its step skips it: the row is unchanged and no update is staged for it.
C11_NoCompounding ==
    /\ [](last.op = "scan_and_reprice" =>
            \A l \in DOMAIN listings :
                (listings[l].status = ACTIVE /\ TargetPrice(steps, listings[l]) # None)
                   => PriceOf(listings[l]) = TargetPrice(steps, listings[l]))
    /\ [][last'.op = "scan_and_reprice" =>
            \A l \in DOMAIN listings :
                (listings[l].status = ACTIVE
                    /\ PriceOf(listings[l]) = TargetPrice(steps, listings[l]))
                   => /\ l \notin last'.detail.repriced
                      /\ listings'[l] = listings[l]]_vars

\* A scan skipped a listing an earlier scan had marked down; the listing had
\* aged past the day its step begins and the scan repriced the other listing.
C11_Witness ==
    /\ last.op = "scan_and_reprice"
    /\ last.detail.repriced # {}
    /\ \E l \in DOMAIN listings :
          /\ l \notin last.detail.repriced
          /\ listings[l].current_price # None
          /\ listings[l].current_price < listings[l].list_price
          /\ _get_step(steps, listings[l].days_active) # 0
          /\ steps[_get_step(steps, listings[l].days_active)][1] < listings[l].days_active

\* C12: a scan makes at most one bulk push, after every row assignment of
\* the scan; when the push raises, the scan still returns, ebay_errors is the
\* number of staged updates, the marketplace prices are as they were, and
\* every repriced row keeps its new current_price and last_repriced_at.
C12_PushAfterMutations ==
    [][last'.op = "scan_and_reprice" =>
          LET trace == last'.detail.trace
              repriced == last'.detail.repriced
              pushes == {k \in 1..Len(trace) : trace[k][1] = "bulk_update_price_quantity"}
          IN  /\ Cardinality(pushes) <= 1
              /\ pushes = {} <=> repriced = {}
              /\ \A k \in pushes : k = Len(trace)
              /\ \A l \in repriced :
                    \E k \in 1..Len(trace) :
                        trace[k] = <<"set_price", l>> /\ \A j \in pushes : k < j
              /\ last'.failed = "bulk_update_price_quantity" =>
                    /\ ~last'.raised
                    /\ last'.detail.ebay_errors = Cardinality(repriced)
                    /\ gwInventory' = gwInventory
                    /\ \A l \in repriced :
                          /\ listings'[l].current_price = TargetPrice(steps, listings[l])
                          /\ listings'[l].current_price # PriceOf(listings[l])
                          /\ listings'[l].last_repriced_at = clock]_vars

\* The push of a scan that repriced both listings raised: two errors are
\* reported, both rows carry the new price, the marketplace the old one.
C12_Witness ==
    /\ last.op = "scan_and_reprice" /\ last.failed = "bulk_update_price_quantity"
    /\ last.detail.ebay_errors = 2
    /\ \A l \in DOMAIN listings :
          /\ listings[l].current_price # None
          /\ listings[l].last_repriced_at = clock
          /\ gwInventory[listings[l].sku] = listings[l].list_price
          /\ listings[l].current_price < listings[l].list_price

\* s with a trailing "_R<n>" (n one or more digits) removed, when it has one.
StripTrailingSuffix(s) ==
    LET digits == {DigitChars[d] : d \in 1..Len(DigitChars)}
        cuts == {i \in 1..(Len(s) - 2) :
                    /\ s[i] = "_" /\ s[i + 1] = "R"
                    /\ \A k \in (i + 2)..Len(s) : s[k] \in digits}
    IN  IF cuts = {} THEN s
        ELSE SubSeq(s, 1, (CHOOSE i \in cuts : TRUE) - 1)

\* C13: a successful resurrection into cycle k gives the listing the SKU
\* base _R k, where base is the previous SKU with only a trailing _R<n>
\* removed; so k resurrections of a listing created with SKU S0 leave it
\* with base(S0) _R k, an "_R" inside S0 included.
C13_SkuKeepsBase ==
    [][(last'.op = "resurrect" /\ last'.ok) =>
          LET l == last'.listing
          IN  listings'[l].sku =
                 StripTrailingSuffix(listings[l].sku)
                    \o <<"_", "R">> \o Str(listings'[l].zombie_cycle_count)]_vars

\* The positions of a call in a sequence of calls.
Positions(calls, name) == {k \in 1..Len(calls) : calls[k] = name}

\* Every occurrence of the first call comes before every one of the second.
Precedes(calls, first, second) ==
    \A i \in Positions(calls, first), j \in Positions(calls, second) : i < j

\* create_inventory_item, create_offer and publish_offer complete in this
\* order, each only after the one before; the row is assigned only after a
\* completed publish, and exactly when the run succeeds.
CreateThenPublishThenUpdate(call) ==
    LET calls == call.detail
    IN  /\ Positions(calls, "create_offer") # {}
             => Positions(calls, "create_inventory_item") # {}
        /\ Positions(calls, "publish_offer") # {} => Positions(calls, "create_offer") # {}
        /\ Positions(calls, "update_listing") # {}
             => Positions(calls, "publish_offer") # {}
        /\ Precedes(calls, "create_inventory_item", "create_offer")
        /\ Precedes(calls, "create_offer", "publish_offer")
        /\ Precedes(calls, "publish_offer", "update_listing")
        /\ Positions(calls, "update_listing") # {} <=> call.ok

\* The run reached create_inventory_item: the call completed or raised.
ReachedCreate(call) ==
    \/ Positions(call.detail, "create_inventory_item") # {}
    \/ call.failed = "create_inventory_item"

C15_AuthIsFatal ==
    last.kind = "Auth" => last.raised

\* What a call's session holds: the listing, queue, offer and campaign rows.
Database == <<listings, entries, offerRecords, campaigns>>

\* C16: a call that raises leaves every row as it was before the call and
\* appends no record; a call that returns commits all of its mutations
\* together: a successful resurrect both the updated row and its
\* ZombieRecord, a relist run the rows and the two records of every listing
\* it relisted.  No call persists a part of what its session held.
C16_SessionAtomic ==
    [][/\ last'.raised => (Database' = Database /\ last'.records = <<>>)
       /\ (last'.op = "resurrect" /\ ~last'.raised) =>
             LET l == last'.listing
             IN  IF last'.ok
                 THEN /\ listings'[l].ebay_item_id # listings[l].ebay_item_id
                      /\ listings'[l].zombie_cycle_count
                            = listings[l].zombie_cycle_count + 1
                      /\ Len(last'.records) = 1
                 ELSE Database' = Database /\ last'.records = <<>>
       /\ (last'.op = "auto_relist" /\ ~last'.raised) =>
             /\ Len(last'.records) = 2 * Cardinality(last'.relisted)
             /\ \A l \in DOMAIN listings :
                   IF l \in last'.relisted
                   THEN listings'[l].ebay_item_id # listings[l].ebay_item_id
                   ELSE listings'[l] = listings[l]]_vars

\* A resurrect published a new offer and raised at its flush, because the
\* other listing holds the SKU it generated: the row still names no offer.
C16_Witness ==
    /\ last.op = "resurrect" /\ last.raised
    /\ \E o \in DOMAIN gwOffers :
          /\ gwOffers[o] = "PUBLISHED"
          /\ \A l \in DOMAIN listings : listings[l].offer_id # o
    /\ listings[last.listing].status = DRAFT
    /\ "update_listing" \in {last.detail[k] : k \in 1..Len(last.detail)}

ScanningPolicies ==
    {"scan_and_reprice", "scan_and_shuffle", "scan_and_snipe",
     "cleanup_expired", "auto_relist"}

\* C17: a scanning policy run again on the state its own fully successful
\* run left, at the same clock, changes no listing row, appends no record
\* and changes nothing at the gateway.
C17_ScansIdempotent ==
    [][(/\ last.op \in ScanningPolicies
        /\ last.ok /\ last.failed = "" /\ last.errors = {}
        /\ last'.op = last.op
        /\ last'.ok /\ last'.failed = "")
         => /\ listings' = listings
            /\ offerRecords' = offerRecords /\ campaigns' = campaigns
            /\ last'.records = <<>>
            /\ <<gwOffers, gwInventory, gwCampaigns, sentOffers>>'
                  = <<gwOffers, gwInventory, gwCampaigns, sentOffers>>]_vars

\* C18: every listing in purgatory status carries its markdown price, and the
\* operation that moved it there (enter_purgatory, or flag_zombie at or
\* above max cycles) has, when it reports success, pushed that price to the
\* marketplace.
C18_PurgatoryCarriesMarkdown ==
    /\ \A l \in DOMAIN listings :
          listings[l].status = PURGATORY
            => listings[l].current_price = calculate_markdown_price(listings[l])
    /\ (last.op \in {"enter_purgatory", "flag_zombie"} /\ last.ok
          /\ listings[last.listing].status = PURGATORY)
            => gwInventory[listings[last.listing].sku]
                 = calculate_markdown_price(listings[last.listing])

\* C19: purgatory is terminal: no step takes a listing in purgatory status
\* to active, queued, draft or zombie, raises its zombie_cycle_count or
\* resets its counters.
C19_PurgatoryTerminal ==
    [][\A l \in DOMAIN listings :
          listings[l].status = PURGATORY
            => /\ listings'[l].status \notin {ACTIVE, QUEUED, DRAFT, ZOMBIE}
               /\ listings'[l].zombie_cycle_count <= listings[l].zombie_cycle_count
               /\ listings'[l].days_active >= listings[l].days_active
               /\ listings'[l].total_views >= listings[l].total_views
               /\ listings'[l].watchers >= listings[l].watchers]_vars

\* C20: with promote_new_listing calls interleaved at their awaits, a listing
\* has at most one Campaign in status active and at most one running campaign
\* on the marketplace.
C20_OneCampaignConcurrent ==
    \A l \in DOMAIN listings :
        /\ Cardinality(ExistingActive(campaigns, l)) <= 1
        /\ Cardinality({k \in 1..Len(gwCampaigns) : gwCampaigns[k] = "RUNNING"}) <= 1

LiveOffers == {o \in DOMAIN gwOffers : gwOffers[o] = "PUBLISHED"}

\* C21: with resurrect calls on one listing interleaved at their awaits, the
\* marketplace never holds two live offers for the listing, and a call that
\* commits replaces the offer it withdrew, not one that another call has
\* published and committed since.
C21_NoDuplicateResurrection ==
    /\ Cardinality(LiveOffers) <= 1
    /\ (last.op = "resurrect" /\ last.ok)
          => last.detail.replaced_offer_id = last.detail.old_offer_id

\* C22: with scan_and_snipe runs interleaved at their awaits, two outbound
\* offers to the same (listing, buyer) are never less than 24 hours apart.
C22_CooldownConcurrent ==
    \A i \in 1..Len(sentOffers), j \in 1..Len(sentOffers) :
        (i < j /\ sentOffers[i][1] = sentOffers[j][1]
               /\ sentOffers[i][2] = sentOffers[j][2])
           => sentOffers[j][3] - sentOffers[i][3] >= CooldownHours

\* ----------------------------------------------------- SmartQueue properties
\* Entry i precedes entry j: higher priority, or equal priority and created
\* earlier.
ComesFirst(es, i, j) ==
    \/ es[i].priority > es[j].priority
    \/ es[i].priority = es[j].priority /\ i < j

Min(a, b) == IF a < b THEN a ELSE b

\* C23: a batch changes min(batch_size, pending) entries, all of them pending
\* before; no entry still pending afterwards precedes, by priority descending
\* then creation ascending, an entry the batch released or failed; an entry
\* that was not pending is left as it was.
C23_BatchTakesFirstPending ==
    [][last'.op = "release_batch" =>
          LET pending == {i \in DOMAIN entries : entries[i].status = PENDING}
              processed == {i \in DOMAIN entries : entries'[i] # entries[i]}
          IN  /\ processed \subseteq pending
              /\ \A i \in processed : entries'[i].status \in {RELEASED, FAILED}
              /\ Cardinality(processed) = Min(batch_size, Cardinality(pending))
              /\ \A i \in processed, j \in pending \ processed :
                    ~ComesFirst(entries, j, i)]_vars

\* A batch of one took the higher-priority entry that was enqueued later and
\* left an earlier entry pending.
C23_Witness ==
    /\ last.op = "release_batch"
    /\ \E i \in DOMAIN entries, j \in DOMAIN entries :
          /\ j < i
          /\ entries[i].status # PENDING /\ entries[j].status = PENDING
          /\ entries[i].priority > entries[j].priority

\* C24: in a batch, an entry whose create_offer or publish_offer failed is
\* failed with an error message and its listing row is as before, still
\* queued; every selected entry was processed; the call did not raise; the
\* released entries are those whose publish succeeded, and they carry one
\* batch id.
C24_FailedEntryDoesNotStopBatch ==
    [][last'.op = "release_batch" =>
          LET selected == last'.detail.selected
              failed == {i \in selected : last'.detail.outcomes[i] # "ok"}
              released == last'.detail.released
          IN  /\ ~last'.raised
              /\ \A i \in failed :
                    /\ entries'[i].status = FAILED
                    /\ entries'[i].error_message # ""
                    /\ listings'[entries[i].listing_id] = listings[entries[i].listing_id]
                    /\ listings'[entries[i].listing_id].status = QUEUED
              /\ \A i \in selected : entries'[i].status # PENDING
              /\ released = selected \ failed
              /\ \A i \in released :
                    /\ entries'[i].status = RELEASED
                    /\ entries'[i].batch_id # None
                    /\ listings'[entries[i].listing_id].status = ACTIVE
              /\ \A i \in released, j \in released :
                    entries'[i].batch_id = entries'[j].batch_id]_vars

\* A batch of two whose first entry failed at publish and whose second entry
\* was released.
C24_Witness ==
    /\ last.op = "release_batch"
    /\ \E i \in last.detail.selected, j \in last.detail.selected :
          /\ ComesFirst(entries, i, j)
          /\ last.detail.outcomes[i] = "publish_offer"
          /\ entries[i].status = FAILED
          /\ entries[j].status = RELEASED

\* C25: a dry run changes no QueueEntry and no Listing, makes no gateway
\* call, and returns the entries that a real run in the same state selects.
C25_DryRunSelectsWithoutMutation ==
    [][/\ last'.op = "release_batch_dry_run" =>
            /\ entries' = entries /\ listings' = listings
            /\ last'.detail.calls = <<>>
            /\ <<gwOffers, gwInventory, nextOfferId>>' = <<gwOffers, gwInventory, nextOfferId>>
       /\ (last.op = "release_batch_dry_run" /\ last'.op = "release_batch") =>
            last'.detail.selected = last.detail.selected]_vars

\* A dry run after an earlier batch: it returned an entry still pending,
\* and an entry of the earlier batch is released.
C25_Witness ==
    /\ last.op = "release_batch_dry_run"
    /\ last.detail.selected # {}
    /\ \A i \in last.detail.selected : entries[i].status = PENDING
    /\ \E i \in DOMAIN entries : entries[i].status = RELEASED

\* ------------------------------------------------------- inbound offers
\* C26: handle_incoming_offer issues exactly one respond_to_offer call: accept
\* when amount / current price >= 0.90, otherwise counter at 95% of the current
\* price when the ratio >= 0.75, otherwise reject, equality taking the higher
\* branch; on success one OfferRecord is appended (accepted for an accept,
\* sent otherwise), on a gateway failure success is false and none is.
C26_IncomingOfferThresholds ==
    [][last'.op = "handle_incoming_offer" =>
          LET amount == last'.detail.offer_amount
              price == PriceOf(listings[last'.listing])
              action == IF 100 * amount >= AutoAcceptPercent * price THEN ACCEPT
                        ELSE IF 100 * amount >= CounterThresholdPercent * price
                        THEN COUNTER
                        ELSE REJECT
              calls == last'.detail.calls
          IN  /\ Len(calls) = 1
              /\ calls[1].action = action
              /\ action = COUNTER =>
                    calls[1].counter_amount = RoundDiv(price * CounterPercent, 100)
              /\ last'.ok =>
                    /\ Len(offerRecords') = Len(offerRecords) + 1
                    /\ SubSeq(offerRecords', 1, Len(offerRecords)) = offerRecords
                    /\ offerRecords'[Len(offerRecords')].status =
                          IF action = ACCEPT THEN ACCEPTED ELSE SENT
              /\ ~last'.ok => offerRecords' = offerRecords]_vars

\* The same, for offers whose ratio is not exactly at a threshold.
C26_AwayFromThresholds ==
    [][(/\ last'.op = "handle_incoming_offer"
        /\ LET amount == last'.detail.offer_amount
               price == PriceOf(listings[last'.listing])
           IN  /\ 100 * amount # AutoAcceptPercent * price
               /\ 100 * amount # CounterThresholdPercent * price) =>
          LET amount == last'.detail.offer_amount
              price == PriceOf(listings[last'.listing])
              action == IF 100 * amount >= AutoAcceptPercent * price THEN ACCEPT
                        ELSE IF 100 * amount >= CounterThresholdPercent * price
                        THEN COUNTER
                        ELSE REJECT
              calls == last'.detail.calls
          IN  /\ Len(calls) = 1
              /\ calls[1].action = action
              /\ last'.ok =>
                    /\ Len(offerRecords') = Len(offerRecords) + 1
                    /\ offerRecords'[Len(offerRecords')].status =
                          IF action = ACCEPT THEN ACCEPTED ELSE SENT
              /\ ~last'.ok => offerRecords' = offerRecords]_vars

\* ------------------------------------------------------- campaign clean-up
\* C27: cleanup_expired processes exactly the active campaigns with
\* ends_at <= now.  One whose end_campaign call succeeds becomes ended and its
\* listing's ad rate 0; one whose call fails is counted in errors and stays
\* active, its listing's ad rate unchanged, while the others are still
\* processed; expired_found = ended + errors; no other campaign changes.
C27_CleanupProcessesExpired ==
    [][last'.op = "cleanup_expired" =>
          LET due == {i \in 1..Len(campaigns) :
                         campaigns[i].status = ACTIVE /\ campaigns[i].ends_at <= clock}
              done == {i \in due : campaigns'[i].status = ENDED}
          IN  /\ Len(campaigns') = Len(campaigns)
              /\ \A i \in (1..Len(campaigns)) \ done : campaigns'[i] = campaigns[i]
              /\ \A i \in done :
                    /\ campaigns'[i] = [campaigns[i] EXCEPT !.status = ENDED]
                    /\ listings'[campaigns[i].listing_id].ad_rate_percent = 0
                    /\ gwCampaigns'[campaigns[i].ebay_campaign_id] = "ENDED"
              /\ \A i \in due \ done :
                    /\ listings'[campaigns[i].listing_id] = listings[campaigns[i].listing_id]
                    /\ gwCampaigns'[campaigns[i].ebay_campaign_id]
                          = gwCampaigns[campaigns[i].ebay_campaign_id]
              /\ \A l \in DOMAIN listings :
                    (\A i \in done : campaigns[i].listing_id # l) => listings'[l] = listings[l]
              /\ last'.detail.expired_found = Cardinality(due)
              /\ last'.detail.ended = Cardinality(done)
              /\ last'.detail.errors = Cardinality(due \ done)
              /\ last'.detail.expired_found = last'.detail.ended + last'.detail.errors]_vars

\* A pass over two expired campaigns: the call for the first failed, the
\* second was ended all the same; the first is still active and promoted.
C27_Witness ==
    /\ last.op = "cleanup_expired"
    /\ last.detail = [expired_found |-> 2, ended |-> 1, errors |-> 1]
    /\ campaigns[1].status = ACTIVE /\ campaigns[1].ends_at <= clock
    /\ campaigns[2].status = ENDED
    /\ listings[campaigns[1].listing_id].ad_rate_percent = KickstarterAdRate
    /\ listings[campaigns[2].listing_id].ad_rate_percent = 0

\* A pass that left a campaign alone because it had not expired yet.
C27_WitnessNotYet ==
    /\ last.op = "cleanup_expired"
    /\ last.detail.ended = 1
    /\ \E i \in 1..Len(campaigns) :
          campaigns[i].status = ACTIVE /\ campaigns[i].ends_at > clock

\* ------------------------------------------------------- zombie predicate
\* C28: both comparisons of the zombie test are strict: a scan reports no
\* listing whose days_active equals the days threshold and none whose views
\* equal the views threshold, and should_purgatory is set exactly on the
\* reported zombies with zombie_cycle_count >= max_cycles.
C28_ZombieStrict ==
    (last.op = "scan" /\ last.ok) =>
        \A z \in last.detail :
            /\ z.days_active # ZombieDaysThreshold
            /\ z.total_views # ZombieViewsThreshold
            /\ z.should_purgatory <=> z.zombie_cycle_count >= MaxZombieCycles

\* What the scan does report: the active listings at least days_threshold
\* days old with fewer than views_threshold views.
C28_ZombieAtLeastDays ==
    (last.op = "scan" /\ last.ok) =>
        /\ \A z \in last.detail :
              /\ z.days_active >= ZombieDaysThreshold
              /\ z.total_views < ZombieViewsThreshold
              /\ z.should_purgatory <=> z.zombie_cycle_count >= MaxZombieCycles
        /\ \A l \in DOMAIN listings :
              (/\ listings[l].status = ACTIVE
               /\ listings[l].days_active >= ZombieDaysThreshold
               /\ listings[l].total_views < ZombieViewsThreshold)
                  => \E z \in last.detail : z.listing_id = l

\* ------------------------------------------------------------- previews
\* C29: the repricer preview, the relister preview and the zombie scan are
\* read-only: they change no listing and no queue row and make no mutating
\* gateway call.
C29_PreviewsReadOnly ==
    [][last'.op \in {"preview_repricing", "scan_for_relists", "scan"} =>
          /\ listings' = listings
          /\ entries' = entries
          /\ <<gwOffers, gwInventory, gwCampaigns>>' = <<gwOffers, gwInventory, gwCampaigns>>
          /\ <<offerRecords, campaigns>>' = <<offerRecords, campaigns>>]_vars

\* The relister preview is read-only.
C29_RelisterPreviewReadOnly ==
    [][last'.op = "scan_for_relists" =>
          /\ listings' = listings
          /\ entries' = entries
          /\ <<gwOffers, gwInventory, gwCampaigns>>' = <<gwOffers, gwInventory, gwCampaigns>>
          /\ <<offerRecords, campaigns>>' = <<offerRecords, campaigns>>]_vars

\* The zombie scan changes no column but total_views.
C29_ScanWritesViewsOnly ==
    [][last'.op = "scan" =>
          /\ \A l \in DOMAIN listings :
                [listings'[l] EXCEPT !.total_views = 0]
                   = [listings[l] EXCEPT !.total_views = 0]
          /\ entries' = entries
          /\ <<gwOffers, gwInventory, gwCampaigns>>' = <<gwOffers, gwInventory, gwCampaigns>>]_vars

\* ------------------------------------------------------------ surge window
\* The weekday names in Python's numbering, Monday first.
WeekdayNames ==
    <<"monday", "tuesday", "wednesday", "thursday", "friday", "saturday", "sunday">>

\* C30: is_surge_window_active(t) is true exactly when t, taken to the
\* configured time zone, falls on the configured weekday at an hour h with
\* start <= h < end, for each of the seven weekday names.
C30_SurgePredicate ==
    (last.op = "is_surge_window_active"
        /\ \E d \in 1..7 : WeekdayNames[d] = surge.surge_day) =>
        LET t == last.detail.now
            \* Hours since Monday 00:00 UTC; a naive t is on the zone's clock.
            instant == t.weekday * 24 + t.hour
                          - (IF t.aware THEN t.utcoffset ELSE surge.tz)
        IN  last.detail.active <=>
                \E d \in 1..7, h \in 0..23 :
                    /\ ((d - 1) * 24 + h - surge.tz - instant) % 168 = 0
                    /\ WeekdayNames[d] = surge.surge_day
                    /\ surge.surge_start <= h /\ h < surge.surge_end

\* Monday 02:00 UTC is Sunday 21:00 at UTC-5, inside a Sunday 20-22 window.
C30_Witness ==
    /\ last.op = "is_surge_window_active"
    /\ surge = [surge_day |-> "sunday", surge_start |-> 20, surge_end |-> 22, tz |-> -5]
    /\ last.detail.now = [weekday |-> 0, hour |-> 2, aware |-> TRUE, utcoffset |-> 0]
    /\ last.detail.active

\* A day name that is none of the seven stands for Sunday.
C30_UnknownDayIsSunday ==
    (last.op = "is_surge_window_active" /\ surge.surge_day = "funday") =>
        (last.detail.active <=>
            is_surge_window_active([surge EXCEPT !.surge_day = "sunday"], last.detail.now))

\* -------------------------------------------------------- gatekeeper properties
\* C31: for every banned word or phrase w and every title that contains w
\* (in any letter case), w does not occur in the lower-cased sanitized title,
\* whatever the other words, the brand and the model are.
C31_BannedWordPurge ==
    last.op = "sanitize" =>
        \A w \in _BANNED_WORDS :
            Contains(str_lower(last.detail.response.original), w)
                => ~Contains(str_lower(last.detail.response.sanitized), w)

\* Without a brand and a model, no word of the sanitized title is a banned
\* word in any letter case.
C31_BannedTokensPurged ==
    (last.op = "sanitize" /\ last.detail.brand = NoName /\ last.detail.model = NoName) =>
        LET words == split(last.detail.response.sanitized)
        IN  \A i \in 1..Len(words) : str_lower(words[i]) \notin _BANNED_WORDS

\* ------------------------------------------------ zombie pipeline, continued
\* C32: every ZombieRecord a resurrection or a preventive relist appends
\* stores the days_active and total_views the listing had when the pipeline
\* started.
C32_RecordAtDetection ==
    [][(last'.op \in {"resurrect", "auto_relist"}) =>
          \A i \in 1..Len(last'.records) :
              LET record == last'.records[i]
              IN  record.action_taken \in {RESURRECTED, PREVENTIVE_RELIST} =>
                    /\ record.days_active_at_detection
                          = listings[record.listing_id].days_active
                    /\ record.views_at_detection
                          = listings[record.listing_id].total_views]_vars

\* What the records hold: the counters after step 6 has reset them.
C32_RecordAfterReset ==
    [][(last'.op \in {"resurrect", "auto_relist"}) =>
          \A i \in 1..Len(last'.records) :
              LET record == last'.records[i]
              IN  record.action_taken \in {RESURRECTED, PREVENTIVE_RELIST} =>
                    /\ record.days_active_at_detection = 0
                    /\ record.views_at_detection = 0]_vars

\* The listings whose pipeline run succeeded in the call that led here.
Succeeded ==
    IF last.op = "resurrect" /\ last.ok THEN {last.listing}
    ELSE IF last.op = "auto_relist" THEN last.relisted
    ELSE {}

\* C33: every successful run of the pipeline, direct or through auto_relist,
\* creates the inventory item under a SKU that differs from the SKU the
\* listing had before the run and from every SKU the marketplace already
\* holds an inventory item for.
C33_NewSkuIsFresh ==
    [][\A l \in Succeeded' :
          /\ listings'[l].sku # listings[l].sku
          /\ gwInventory[listings'[l].sku] = None]_vars

\* The first half alone: the run changes the listing's SKU.
C33_SkuChanges ==
    [][\A l \in Succeeded' : listings'[l].sku # listings[l].sku]_vars

\* What a successful run gives: the SKU cut at its first "_R", with the
\* cycle number the run computed (one more than the stored count).
C33_SkuFromStoredCycle ==
    [][\A l \in Succeeded' :
          listings'[l].sku
             = _generate_resurrection_sku(listings[l].sku,
                                          listings[l].zombie_cycle_count + 1)]_vars

\* C34: when enter_purgatory returns success = false because the price push
\* failed, the listing's status and current_price are what they were before
\* the call.
C34_FailedPurgatoryLeavesRow ==
    [][(last'.op = "enter_purgatory" /\ ~last'.ok) =>
          /\ listings'[last'.listing].status = listings[last'.listing].status
          /\ listings'[last'.listing].current_price
                = listings[last'.listing].current_price]_vars

\* What a failed push leaves: the row in purgatory at the markdown price, and
\* the marketplace price as it was.
C34_FailedPurgatoryKeepsMarkdown ==
    [][(last'.op = "enter_purgatory" /\ ~last'.ok) =>
          /\ listings'[last'.listing].status = PURGATORY
          /\ listings'[last'.listing].current_price
                = calculate_markdown_price(listings[last'.listing])
          /\ gwInventory' = gwInventory]_vars

\* Every listing that is active locally and names an offer has that offer
\* published on the marketplace.
ActiveIsPublished ==
    \A l \in DOMAIN listings :
        (listings[l].status = ACTIVE /\ listings[l].offer_id # None)
            => gwOffers[listings[l].offer_id] = "PUBLISHED"

\* C35: once an operation has returned, with success or with a structured
\* failure, every listing that is active locally and names an offer has that
\* offer published: an operation that returns never breaks this.
C35_ActiveStaysPublished ==
    [][(ActiveIsPublished /\ ~last'.raised) => ActiveIsPublished']_vars

\* A run that returns success keeps it.
C35_SuccessKeepsPublished ==
    [][(ActiveIsPublished /\ last'.op \in {"resurrect", "auto_relist"}
            /\ ~last'.raised /\ last'.ok /\ last'.errors = {})
          => ActiveIsPublished']_vars

\* ------------------------------------------------------- queue, continued
\* Every queued listing has a pending QueueEntry.
C36_QueuedHasPending ==
    \A l \in DOMAIN listings :
        listings[l].status = QUEUED
            => \E i \in 1..Len(entries) :
                  entries[i].listing_id = l /\ entries[i].status = PENDING

\* C36: no queued listing is stranded: when release_batch keeps being
\* invoked and the gateway stops failing, every queued listing becomes
\* active, one whose earlier release attempt failed included.
C36_QueuedEventuallyActive ==
    \A l \in QueueIds :
        (listings[l].status = QUEUED) ~> (listings[l].status = ACTIVE)

\* Every pending entry is taken by some batch and leaves the pending state.
C36_PendingEventuallyTaken ==
    \A i \in 1..Cardinality(QueueIds) :
        (entries[i].status = PENDING) ~> (entries[i].status # PENDING)

\* C37: a pending entry is published at most once: every entry a
\* release_batch run releases was still pending when the run committed, so
\* no other run had released it; its listing had not been made active by an
\* earlier release; and no two entries the run releases are for one listing.
C37_PublishedOnce ==
    [][(last'.op = "release_batch") =>
          /\ \A i \in last'.detail.released :
                /\ entries[i].status = PENDING
                /\ listings[entries[i].listing_id].status # ACTIVE
          /\ \A i, j \in last'.detail.released :
                entries[i].listing_id = entries[j].listing_id => i = j]_vars

\* The part about interleaved runs alone.
C37_ReleasedByOneRun ==
    [][(last'.op = "release_batch") =>
          \A i \in last'.detail.released : entries[i].status = PENDING]_vars

\* The part about a listing enqueued twice alone: runs whose entries no other
\* run has released.
C37_OneOfferPerListing ==
    [][(last'.op = "release_batch" /\ \A c \in Callers : sessions[c].pc \in {"idle", "flush"}
            /\ \A i \in last'.detail.released : entries[i].status = PENDING) =>
          /\ \A i \in last'.detail.released :
                listings[entries[i].listing_id].status # ACTIVE
          /\ \A i, j \in last'.detail.released :
                entries[i].listing_id = entries[j].listing_id => i = j]_vars

\* ------------------------------------------------- cross-policy properties
\* The listing's minimum viable price is at most price.
AtLeastFloor(price, listing) ==
    LET min_price == find_minimum_price(listing.purchase_price, listing.shipping_cost,
                                        listing.ad_rate_percent)
    IN  min_price.den # 0 /\ price * min_price.den >= min_price.num

\* C38: every offer price scan_and_snipe sends to a watcher is at least the
\* ProfitFloor minimum viable price of the listing, for every tier and every
\* current_price the Repricer or Purgatory has set.
C38_OfferAboveFloor ==
    \A i \in 1..Len(offerRecords) :
        offerRecords[i].status = SENT
            => AtLeastFloor(offerRecords[i].offer_price,
                            listings[offerRecords[i].listing_id])

\* The same for a listing whose price no policy has touched and that is
\* less than 45 days old.
C38_YoungListPriceOfferAboveFloor ==
    [][(last'.op = "scan_and_snipe"
          /\ \A l \in DOMAIN listings :
                listings[l].current_price = None /\ listings[l].days_active < 45)
        => \A i \in 1..Len(offerRecords') :
              offerRecords'[i].status = SENT
                 => AtLeastFloor(offerRecords'[i].offer_price,
                                 listings[offerRecords'[i].listing_id])]_vars

\* What is sent: the price in force less the tier's discount, whatever the
\* floor is.
C38_OfferIsDiscountedPrice ==
    [][(last'.op = "scan_and_snipe") =>
          \A i \in (Len(offerRecords) + 1)..Len(offerRecords') :
              LET listing == listings[offerRecords'[i].listing_id]
              IN  offerRecords'[i].offer_price
                    = calculate_offer_price(_parse_tiers(OfferTiers), PriceOf(listing),
                                            listing.days_active)]_vars

\* ------------------------------------------------------- EbayHttpClient
\* The step in which the frame f of a task becomes g because
\* self._client.request answered.
Answered(f, g) == f.pc = "send" /\ g # f

\* The answers after which request goes round its loop again.
Transient(e) ==
    \/ e.kind \in {"timeout", "transport"}
    \/ e.kind = "response" /\ e.status \in {429, 500, 502, 503}

\* The error request keeps for a transient answer.
TransientError(e, error) ==
    /\ e.kind = "timeout" => error.type = "EbayError" /\ error.message = "Request timed out"
    /\ e.kind = "transport" =>
           error.type = "EbayError" /\ error.message = "HTTP transport error"
    /\ e.kind = "response" =>
           /\ error.status = e.status
           /\ error.type = IF e.status = 429 THEN "EbayRateLimitError" ELSE "EbayError"

\* C39: EbayHttpClient.request sends at most 3 times.  An answer below 400
\* is returned at once; an answer of 400 or more other than 429, 500, 502
\* and 503 is raised at once, with no further send; after a timeout, a
\* transport error or a 429, 500, 502 or 503 the call either sends again or
\* ends with an error, and a send that is not the first of its call follows
\* nothing but such an answer; when the third send fails that way, the call
\* ends and raises the error of that answer.
C39_RequestRetries ==
    [][\A t \in Tasks :
          LET f == requests[t]
              g == requests'[t]
              e == g.event
          IN  /\ g.sends <= 3
              /\ Answered(f, g) /\ e.kind = "response" /\ e.status < 400 =>
                     g.pc = "done" /\ g.outcome = "returned" /\ g.sends = f.sends
              /\ Answered(f, g) /\ ~Transient(e) /\ e.status >= 400 =>
                     /\ g.pc = "done" /\ g.outcome = "raised" /\ g.sends = f.sends
                     /\ g.error.status = e.status
              /\ Answered(f, g) /\ Transient(e) /\ f.sends < 3 =>
                     /\ g.outcome # "returned"
                     /\ g.pc = "send" => g.sends = f.sends + 1
                     /\ g.pc # "send" => g.sends = f.sends
              /\ Answered(f, g) /\ Transient(e) /\ f.sends = 3 =>
                     /\ g.pc = "done" /\ g.outcome = "raised" /\ g.sends = 3
                     /\ TransientError(e, g.error)
              /\ f.pc \in {"send", "sleep", "token"} /\ g.sends > f.sends /\ f.sends > 0 =>
                     Transient(e)
      ]_vars

\* A call that sent three times, the third send timing out, and raised the
\* time-out error.
C39_Witness ==
    \E t \in Tasks :
        /\ requests[t].pc = "done" /\ requests[t].outcome = "raised"
        /\ requests[t].sends = 3
        /\ requests[t].event.kind = "timeout"
        /\ requests[t].error = [type |-> "EbayError", message |-> "Request timed out",
                                status |-> 0]

\* ------------------------------------------------------ EbayRateLimiter
\* The calls of the sliding window: those _prune_old would keep now.
InWindow ==
    Cardinality({i \in 1..Len(limiter._calls) :
                    limiter._calls[i] >= monotonic - WindowSeconds})

\* The step records a call.
CallRecorded ==
    limiter'._calls = Append(PruneCalls(limiter._calls, monotonic - WindowSeconds), monotonic)

\* C40: the sliding window of a rate limiter that tasks share through one
\* client never holds more calls than the daily limit.
C40_WindowWithinLimit == InWindow <= DailyLimit

\* C40, second half: while the window holds daily-limit calls no call is
\* recorded.
C40_NoCallWhenFull == [][InWindow >= DailyLimit => ~CallRecorded]_vars

\* What the code keeps: a call is recorded on a full window only by a task
\* that passed the check of wait_if_needed earlier and waited for a token
\* since; a task that reaches the check on a full window raises and records
\* nothing.
C40_OverLimitOnlyAfterTokenWait ==
    [][InWindow >= DailyLimit /\ CallRecorded =>
          \E t \in Tasks : requests[t].pc = "token" /\ requests'[t].pc = "send"]_vars

====
